---------------------------- MODULE Spec2Model ----------------------------
(***************************************************************************)
(* A model of rusty-doors: the client side of a door call (DoorArgument,   *)
(* Client::call, the Borrowed/Owned classification of the response buffer  *)
(* and its munmap on drop), the server side wrapper (Request, Response,    *)
(* c_wrapper, door_return), the descriptor tables of the two processes,   *)
(* the life of the server's Door (create_server, install, drop), the        *)
(* example servers whose handlers share an atomic counter or stage their   *)
(* reply in a static String, and from the first version of the crate       *)
(* RawServerProcedure, install_server_procedure and #[door_send_fd].       *)
(* The illumos kernel is the environment: door_call, door_return, open,    *)
(* close and munmap are modelled after the declarations and documentation  *)
(* in doors/src/illumos and after the behaviour the repository's tests     *)
(* rely on.                                                                *)
(***************************************************************************)
EXTENDS Integers, Sequences, FiniteSets, TLC

(***************************************************************************)
(* Bounds of the model.                                                    *)
(***************************************************************************)
\* Longest payload (request data, reply data) in bytes.
MaxLen == 1
\* Slots in each process's descriptor table.
MaxFds == 3
\* Regions the kernel is able to map into the caller before EOVERFLOW.
MaxMaps == 1
\* Callers that call the doors of one server at the same time.
MaxCallers == 2
\* The increment calls made in all when their number has to reach the width
\* of COUNT, and when it has not.
MaxIncrements == 257
MaxKnocks == 2
\* The longest payload and the most descriptors of a call whose Request is
\* compared with what was sent.
MaxSent == 2

(***************************************************************************)
(* Program constants.                                                      *)
(***************************************************************************)
DOOR_DESCRIPTOR == 65536
DOOR_RELEASE == 262144
\* size_of::<door_desc_t>(): a c_uint and a union of five c_int.
SizeofDoorDesc == 24
\* The page size of the overflow mapping (a 4096 byte reply maps 4096 bytes).
PageSize == 4096
\* Response holds [door_desc_t; 2].
ResponseSlots == 2
\* The descriptor value Response::new stores in its unused slots.
InvalidFd == -1
\* COUNT is an AtomicU8.
CounterBits == 8

(***************************************************************************)
(* Values.                                                                 *)
(***************************************************************************)
Bytes == {1}
Payloads == UNION {[1..n -> Bytes] : n \in 0..MaxLen}
\* Capacities of the response buffer a caller supplies: too small, exact,
\* and one with room for a descriptor next to the data.
Capacities == (0..MaxLen) \cup {2 * SizeofDoorDesc}

FdNums == 0..(MaxFds - 1)
Closed == "closed"
TheDoor == "door"
TheFile == "file"

\* errno values door_call(3C) documents, and one it does not.
DocumentedErrnos ==
    {"E2BIG", "EAGAIN", "EBADF", "EFAULT", "EINTR", "EINVAL", "EMFILE",
     "ENFILE", "ENOBUFS", "ENOTSUP", "EOVERFLOW"}
UndocumentedErrnos == {"ENXIO"}
Errnos == DocumentedErrnos \cup UndocumentedErrnos

\* Addresses in the caller's address space.
PayloadAddr == [region |-> "payload", id |-> 0]
CallerBuf == [region |-> "caller", id |-> 0]
KernelMap(i) == [region |-> "kernel", id |-> i]
NullAddr == [region |-> "null", id |-> 0]

RoundUp(n, m) == ((n + m - 1) \div m) * m

RECURSIVE BitOr(_, _)
BitOr(a, b) ==
    IF a = 0 THEN b
    ELSE IF b = 0 THEN a
    ELSE 2 * BitOr(a \div 2, b \div 2)
         + (IF (a % 2 = 1) \/ (b % 2 = 1) THEN 1 ELSE 0)

\* The lowest descriptor number free in a table, as open(2) allots it.
HasFree(tbl) == \E n \in FdNums : tbl[n] = Closed
LowestFree(tbl) == CHOOSE n \in FdNums :
    /\ tbl[n] = Closed
    /\ \A m \in FdNums : m < n => tbl[m] # Closed

(***************************************************************************)
(* Descriptor records: DoorFd::new and door_desc_t::new.                   *)
(***************************************************************************)
\* A wrong DoorFd::new, which forgets the release flag: RelayMoves tells it
\* from the right one.
DoorFd_new_ignores_release(raw, release) ==
    [d_attributes |-> DOOR_DESCRIPTOR, d_descriptor |-> raw]

DoorFd_new(raw, release) ==
    [d_attributes |-> IF release THEN BitOr(DOOR_DESCRIPTOR, DOOR_RELEASE)
                                 ELSE DOOR_DESCRIPTOR,
     d_descriptor |-> raw]

will_release(d) == d.d_attributes = BitOr(DOOR_DESCRIPTOR, DOOR_RELEASE)

as_raw_fd(d) == d.d_descriptor

door_desc_t_new(raw, release) ==
    [d_attributes |-> IF release THEN BitOr(DOOR_DESCRIPTOR, DOOR_RELEASE)
                                 ELSE DOOR_DESCRIPTOR,
     d_descriptor |-> raw]

(***************************************************************************)
(* The argument record and DoorArgument.                                   *)
(***************************************************************************)
\* A wrong door_arg_t::new, which passes no response buffer: FitsIsBorrowed
\* tells it from the right one.
DoorArg_new_no_rbuf(data, descriptors, response) ==
    [data_ptr |-> data.addr, data |-> data.bytes, data_size |-> Len(data.bytes),
     desc |-> descriptors, desc_num |-> Len(descriptors),
     rbuf |-> NullAddr, rsize |-> 0]

\* door_arg_t::new: the record names the payload, the descriptors and the
\* response buffer.  data and desc are the contents at data_ptr and desc_ptr.
\* A byte slice is [addr, bytes]; the response slice is [addr, len].
DoorArg_new(data, descriptors, response) ==
    [data_ptr |-> data.addr, data |-> data.bytes, data_size |-> Len(data.bytes),
     desc |-> descriptors, desc_num |-> Len(descriptors),
     rbuf |-> response.addr, rsize |-> response.len]

borrowed_rbuf(data, descriptors, response) ==
    [variant |-> "BorrowedRbuf", inner |-> DoorArg_new(data, descriptors, response)]

owned_rbuf(data, descriptors, response) ==
    [variant |-> "OwnedRbuf", inner |-> DoorArg_new(data, descriptors, response)]

DoorArgument_new(data, descriptors, response) ==
    borrowed_rbuf(data, descriptors, response)

rbuf_addr(inner) == inner.rbuf

\* DoorArg::data and DoorArg::rbuf: the slices the record names.
DoorArg_data(inner) == SubSeq(inner.data, 1, inner.data_size)
DoorArg_rbuf(inner) == [addr |-> inner.rbuf, len |-> inner.rsize]

\* Whether the bytes data() names can be read: a slice of no bytes always
\* can, and others when the region they lie in is still mapped.
DataReadable(inner, maps) ==
    \/ inner.data_size = 0
    \/ inner.data_ptr.region # "kernel"
    \/ maps[inner.data_ptr.id].mapped

\* A wrong rbuf(), which gives the slice of the data: RbufLengths tells it
\* from the right one.
DoorArgument_rbuf_of_data(a) == [addr |-> a.inner.data_ptr, len |-> a.inner.data_size]

\* DoorArgument::data and DoorArgument::rbuf.
DoorArgument_data(a) == DoorArg_data(a.inner)
DoorArgument_rbuf(a) == DoorArg_rbuf(a.inner)

NoArg == [variant |-> "None"]


(***************************************************************************)
(* The state.                                                              *)
(***************************************************************************)
VARIABLES
    cfds,       \* descriptor table of the calling process
    sfds,       \* descriptor table of the server process
    fdHist,     \* history: what became of each descriptor value of the caller
    client,     \* the Client handle the caller holds
    arg,        \* the DoorArgument the caller holds, or the one call consumed
    ctor,       \* history: how arg was built (constructor, descriptors, capacity)
    cpc,        \* position of the calling thread
    call,       \* locals of Client::call
    result,     \* what Client::call returned
    kmaps,      \* regions the kernel mapped into the caller, in order
    munmaps,    \* history: the munmap calls made since the argument was made
    spc,        \* position of the server thread
    raw,        \* the five raw arguments of the callback
    request,    \* the Request the wrapper built
    response,   \* the Response under construction or returned by user logic
    added,      \* history: the add_descriptor calls that succeeded
    steps,      \* history: the steps of the current invocation, in order
    ret,        \* the arguments of the terminal call
    wrapper,    \* the server procedure of the door: which wrapper serves it
    door,       \* the door the server created, and the Door handle that owns it
    jamb,       \* what the path the door is installed at holds
    install,    \* position and result of Door::install
    count,      \* COUNT, the counter the handlers increment and fetch share
    inv,        \* the call each further caller has under way, if any
    returned,   \* history: how many increment calls have returned
    buffer      \* BUFFER, the String the capitalize servers stage their reply in

cvars == <<cfds, fdHist, client, arg, ctor, cpc, call, result, kmaps, munmaps>>
svars == <<sfds, spc, raw, request, response, added, steps, ret, wrapper,
           count, inv, returned, buffer, door, jamb, install>>
vars == <<cfds, sfds, fdHist, client, arg, ctor, cpc, call, result, kmaps,
          munmaps, spc, raw, request, response, added, steps, ret, wrapper,
          count, inv, returned, buffer, door, jamb, install>>

\* String::new(): the empty String BUFFER starts as.  A String owns an
\* allocation; at names it by the caller whose invocation assigned BUFFER
\* last (0 for none), and an assignment frees the allocation of the String
\* before it.
String_new == [at |-> 0, bytes |-> <<>>]

\* std::mem::size_of::<RawFd>(), the last argument the handler generated by
\* #[door_send_fd] gives door_return.
SizeofRawFd == 4

\* The cookie create_server and create_server_with_attributes give the door.
DoorCookie == 0

\* The cookie the door_info_cookie test gives its door.
TestCookie == 7

Cookies == {DoorCookie, TestCookie}

\* The cookie crosses the kernel as a pointer: `cookie as *const c_void` on
\* the way in, `cookie as u64` on the way out.  Both are 64 bits wide on
\* illumos, so no bit is lost either way.
AsPointer(c) == [ptr |-> c]
AsU64(p) == p.ptr

\* The kernel's record of the door and the Door handle of the server:
\* whether door_create made it, the constructor and the cookie it was made
\* with, the cookie the kernel keeps (di_data), its descriptor in the server,
\* whether it is revoked and how often door_revoke was called on it,
\* whether the Door handle is still held, and as history whether an
\* invocation was in flight when the handle was dropped.
DoorOf(how, given, cookie, fd) ==
    [made |-> TRUE, how |-> how, given |-> given, di_data |-> AsPointer(cookie),
     fd |-> fd, revoked |-> FALSE, revokes |-> 0, held |-> TRUE,
     inflight |-> FALSE]
NoDoor ==
    [made |-> FALSE, how |-> "none", given |-> DoorCookie,
     di_data |-> AsPointer(DoorCookie), fd |-> InvalidFd,
     revoked |-> FALSE, revokes |-> 0, held |-> FALSE, inflight |-> FALSE]

\* Door::install: where it stands and what it returned.
Installing(pc, res) == [pc |-> pc, result |-> res]
NotInstalling == Installing("idle", "none")

\* The callers of the servers that share COUNT, and the call of one of
\* them: where it stands, the door it calls, the handler's Response, the
\* arguments of the terminal call, the reply, and as history, for a fetch,
\* whether no increment was under way during it.
Callers == 1..MaxCallers
NoInvocation ==
    [pc |-> "idle", door |-> "none", response |-> [valid |-> FALSE],
     ret |-> [valid |-> FALSE], reply |-> <<>>, quiet |-> FALSE]

\* ServerProcedure::c_wrapper, or the function #[server_procedure] generates.
Wrappers == {"c_wrapper", "server_procedure"}

\* How the argument in hand came to be: the constructor, the descriptors it
\* was given and the capacity of the response buffer it was given.
Made(how, fds, cap) == [how |-> how, fds |-> fds, cap |-> cap]
NotMade == Made("none", <<>>, 0)

NoClient == [live |-> FALSE, fd |-> InvalidFd]
NoResult == [kind |-> "None"]
\* The locals of Client::call: the address a, door_call's value and errno,
\* and as history the argument as it was given, how many times door_call
\* was issued, and the bytes the handler passed to its terminal call.
NoCall ==
    [a |-> NullAddr, rc |-> 0, errno |-> "none", pre |-> NoArg,
     issued |-> 0, sent |-> <<>>]
NoRaw == [valid |-> FALSE]
NoRequest == [valid |-> FALSE]
NoResponse == [valid |-> FALSE]
NoRet == [valid |-> FALSE]

Init ==
    /\ cfds = [n \in FdNums |-> Closed]
    /\ sfds = [n \in FdNums |-> IF n = 0 THEN TheDoor ELSE Closed]
    /\ fdHist = [n \in FdNums |-> "fresh"]
    /\ client = NoClient
    /\ arg = NoArg
    /\ ctor = NotMade
    /\ cpc = "idle"
    /\ call = NoCall
    /\ result = NoResult
    /\ kmaps = <<>>
    /\ munmaps = {}
    /\ spc = "idle"
    /\ raw = NoRaw
    /\ request = NoRequest
    /\ response = NoResponse
    /\ added = <<>>
    /\ steps = <<>>
    /\ ret = NoRet
    /\ wrapper \in Wrappers
    /\ door = DoorOf("create_server", DoorCookie, DoorCookie, 0)
    /\ jamb = "door"
    /\ install = Installing("done", "Ok")
    /\ count = 0
    /\ inv = [c \in Callers |-> NoInvocation]
    /\ returned = 0
    /\ buffer = String_new

\* An open that never sees the attached door: InstalledPathOpensDoor tells
\* it from the right one.
OpenedAt_the_file(j) == TheFile

\* What File::open gives for the path: the door when one is attached there,
\* else the plain file.
OpenedAt(j) == IF j = "door" THEN TheDoor ELSE TheFile

(***************************************************************************)
(* The caller: Client handles and descriptors.                             *)
(***************************************************************************)
\* A descriptor value handed out again by open is no longer the closed one.
Reassign(n) == [fdHist EXCEPT ![n] = IF @ = "fresh" THEN "fresh" ELSE "reassigned"]

\* Client::open: File::open(path) and into_raw_fd.
ClientOpen ==
    /\ cpc = "idle" /\ ~client.live /\ arg = NoArg /\ result = NoResult
    /\ HasFree(cfds)
    /\ jamb # "absent"
    /\ LET n == LowestFree(cfds) IN
        /\ cfds' = [cfds EXCEPT ![n] = OpenedAt(jamb)]
        /\ client' = [live |-> TRUE, fd |-> n]
        /\ fdHist' = Reassign(n)
    /\ UNCHANGED <<arg, ctor, cpc, call, result, kmaps, munmaps>>
    /\ UNCHANGED svars

\* FromRawFd for Client: wraps the number it is given, open or not.  The
\* numbers tried are those some Client has held before.
ClientFromRawFd(n) ==
    /\ cpc = "idle" /\ ~client.live /\ arg = NoArg /\ result = NoResult
    /\ fdHist[n] # "fresh"
    /\ client' = [live |-> TRUE, fd |-> n]
    /\ UNCHANGED <<cfds, fdHist, arg, ctor, cpc, call, result, kmaps, munmaps>>
    /\ UNCHANGED svars

\* A wrong close, which leaves the descriptor open: DroppedHandleIsInvalid
\* tells it from the right one.
CloseKeepsOpen(tbl, n) == tbl

\* The close(2) of Drop for Client; its errors are ignored.

CloseFd(tbl, n) == [tbl EXCEPT ![n] = Closed]

\* Drop for Client.
ClientDrop ==
    /\ cpc = "idle" /\ client.live /\ arg = NoArg /\ result = NoResult
    /\ cfds' = CloseFd(cfds, client.fd)
    /\ fdHist' = [n \in FdNums |-> IF n = client.fd THEN "dropped" ELSE fdHist[n]]
    /\ client' = NoClient
    /\ UNCHANGED <<arg, ctor, cpc, call, result, kmaps, munmaps>>
    /\ UNCHANGED svars

\* The caller opens a plain file, to have a descriptor to pass.
CallerOpenFile ==
    /\ cpc = "idle" /\ arg = NoArg /\ result = NoResult
    /\ HasFree(cfds)
    /\ LET n == LowestFree(cfds) IN
        /\ cfds' = [cfds EXCEPT ![n] = TheFile]
        /\ fdHist' = Reassign(n)
    /\ UNCHANGED <<client, arg, ctor, cpc, call, result, kmaps, munmaps>>
    /\ UNCHANGED svars

\* The caller closes a plain file it holds (one it opened or received).
CallerCloseFile(n) ==
    /\ cpc = "idle" /\ arg = NoArg /\ result = NoResult
    /\ cfds[n] = TheFile
    /\ cfds' = [cfds EXCEPT ![n] = Closed]
    /\ UNCHANGED <<fdHist, client, arg, ctor, cpc, call, result, kmaps, munmaps>>
    /\ UNCHANGED svars

(***************************************************************************)
(* The caller: building and dropping a DoorArgument.                       *)
(***************************************************************************)
\* The response buffers a caller supplies: a slice of CallerBuf.
ResponseBuffers == {[addr |-> CallerBuf, len |-> c] : c \in Capacities}

\* The descriptors a caller passes: none, or one file it holds, to be
\* released or not; each is a pair <<raw descriptor, release>>.
CallerFiles == {n \in FdNums : cfds[n] = TheFile}
CallerDescriptors == {<<>>} \cup {<<<<n, rel>>>> : n \in CallerFiles, rel \in BOOLEAN}

\* The caller makes a DoorFd of each pair.
DoorFds(fds) == [i \in 1..Len(fds) |-> DoorFd_new(fds[i][1], fds[i][2])]

Construct(how, data, descriptors, buf) ==
    CASE how = "new" -> DoorArgument_new(data, descriptors, buf)
      [] how = "borrowed_rbuf" -> borrowed_rbuf(data, descriptors, buf)
      [] how = "owned_rbuf" -> owned_rbuf(data, descriptors, buf)

Constructors == {"new", "borrowed_rbuf", "owned_rbuf"}

\* DoorArgument::new, borrowed_rbuf or owned_rbuf, called by the caller.
NewArgument(how, data, fds, buf) ==
    /\ cpc = "idle" /\ client.live /\ arg = NoArg /\ result = NoResult
    /\ arg' = Construct(how, [addr |-> PayloadAddr, bytes |-> data], DoorFds(fds), buf)
    /\ ctor' = Made(how, fds, buf.len)
    /\ munmaps' = {}
    /\ UNCHANGED <<cfds, fdHist, client, cpc, call, result, kmaps>>
    /\ UNCHANGED svars

\* munmap(2) as munmap_rbuf calls it on (rbuf, rsize): "ok", or "EINVAL" for
\* a range that is empty or not page aligned.  A region the kernel mapped is
\* page aligned; a buffer of the caller may or may not be.
MunmapOutcomes(inner) ==
    IF inner.rbuf.region = "kernel" THEN {"ok"}
    ELSE IF inner.rsize = 0 THEN {"EINVAL"}
    ELSE {"ok", "EINVAL"}

Unmapped(maps, inner) ==
    IF inner.rbuf.region = "kernel"
    THEN [maps EXCEPT ![inner.rbuf.id] =
             [@ EXCEPT !.mapped = FALSE,
                       !.unmaps = IF @ < 2 THEN @ + 1 ELSE @]]
    ELSE maps

\* Drop for DoorArgument, run at `at`; the thread goes on at `next` unless
\* the unwrap of munmap_rbuf panics.
Drop(a, at, next) ==
    IF a.variant = "OwnedRbuf"
    THEN \E out \in MunmapOutcomes(a.inner) :
            /\ munmaps' = munmaps \cup
                  {[addr |-> a.inner.rbuf, len |-> a.inner.rsize, at |-> at]}
            /\ kmaps' = IF out = "ok" THEN Unmapped(kmaps, a.inner) ELSE kmaps
            /\ cpc' = IF out = "ok" THEN next ELSE "panicked"
    ELSE /\ UNCHANGED <<kmaps, munmaps>>
         /\ cpc' = next

\* The caller drops an argument it built and did not pass to call.
DropArgument ==
    /\ cpc = "idle" /\ arg # NoArg
    /\ Drop(arg, "drop_arg", "idle")
    /\ arg' = NoArg
    /\ ctor' = NotMade
    /\ UNCHANGED <<cfds, fdHist, client, call, result>>
    /\ UNCHANGED svars

\* The caller is done with what call returned: an Ok(DoorArgument) is dropped.
DropResult ==
    /\ cpc = "idle" /\ result # NoResult
    /\ IF result.kind = "Ok"
       THEN Drop(result.arg, "drop_result", "idle")
       ELSE UNCHANGED <<kmaps, munmaps, cpc>>
    /\ result' = NoResult
    /\ call' = NoCall
    /\ ctor' = NotMade
    /\ UNCHANGED <<cfds, fdHist, client, arg>>
    /\ UNCHANGED svars

\* The caller passes the DoorArgument a call returned to the next call.
ReuseResult ==
    /\ cpc = "idle" /\ result.kind = "Ok" /\ arg = NoArg /\ client.live
    /\ arg' = result.arg
    /\ ctor' = Made("result", <<>>, result.arg.inner.rsize)
    /\ result' = NoResult
    /\ call' = NoCall
    /\ munmaps' = {}
    /\ UNCHANGED <<cfds, fdHist, client, cpc, kmaps>>
    /\ UNCHANGED svars

(***************************************************************************)
(* Client::call.                                                           *)
(***************************************************************************)
Ok(a) == [kind |-> "Ok", arg |-> a]
Err(e) == [kind |-> "Err", err |-> e]
Panicked == [kind |-> "Panic"]

Variant(name) == [DoorCallError |-> name]
DoorCallErrors ==
    {Variant(n) : n \in {"E2BIG", "EAGAIN", "EBADF", "EFAULT", "EINTR", "EINVAL",
                         "EMFILE", "ENFILE", "ENOBUFS", "ENOTSUP", "EOVERFLOW"}}

Unreachable == [panic |-> "unreachable!()"]

\* A wrong match, with a default arm instead of unreachable!():
\* ErrnoMapping tells it from the right one.
DoorCallErrorOf_default(e) ==
    IF e \in DocumentedErrnos THEN Variant(e) ELSE Variant("EINVAL")

\* A wrong mapping, which reports every failure as interrupted: IssuedOnce
\* tells it from the right one.
DoorCallErrorOf_all_EINTR(e) == Variant("EINTR")

\* The match on errno() of Client::call.
DoorCallErrorOf(e) ==
    CASE e = "E2BIG" -> Variant("E2BIG")
      [] e = "EAGAIN" -> Variant("EAGAIN")
      [] e = "EBADF" -> Variant("EBADF")
      [] e = "EFAULT" -> Variant("EFAULT")
      [] e = "EINTR" -> Variant("EINTR")
      [] e = "EINVAL" -> Variant("EINVAL")
      [] e = "EMFILE" -> Variant("EMFILE")
      [] e = "ENFILE" -> Variant("ENFILE")
      [] e = "ENOBUFS" -> Variant("ENOBUFS")
      [] e = "ENOTSUP" -> Variant("ENOTSUP")
      [] e = "EOVERFLOW" -> Variant("EOVERFLOW")
      [] OTHER -> Unreachable

\* A wrong success arm, which returns the argument whatever rbuf has become:
\* ClassifiedByAddress tells it from the right one.
CallSucceeded_keeps_argument(argument, a) == [result |-> Ok(argument), moved |-> TRUE]

\* The arm of the match taken when door_call returned 0: the argument itself
\* when rbuf still is the address a, and else a new OwnedRbuf built from the
\* record x the kernel left; moved tells whether arg was moved into the result.
CallSucceeded(argument, a) ==
    LET x == argument.inner IN
    IF x.rbuf = a
    THEN [result |-> Ok(argument), moved |-> TRUE]
    ELSE [result |-> Ok(owned_rbuf([addr |-> x.data_ptr, bytes |-> x.data],
                                   x.desc,
                                   [addr |-> x.rbuf, len |-> x.rsize])),
          moved |-> FALSE]

\* The arm taken when door_call returned anything else.
CallFailed(argument, e) ==
    LET v == DoorCallErrorOf(e) IN
    [result |-> IF v = Unreachable THEN Panicked ELSE Err(v), moved |-> FALSE]

\* A wrong match, which takes the success arm whatever door_call returned:
\* ErrOnFailure tells it from the right one.
CallMatch_ignores_rc(argument, a, rc, e) == CallSucceeded(argument, a)

\* The match on door_call's return value.
CallMatch(argument, a, rc, e) ==
    IF rc = 0 THEN CallSucceeded(argument, a) ELSE CallFailed(argument, e)

\* Client::call up to door_call: a is read, and the thread enters the kernel.
CallEnter ==
    /\ cpc = "idle" /\ client.live /\ arg # NoArg /\ result = NoResult
    /\ call' = [a |-> rbuf_addr(arg.inner), rc |-> 0, errno |-> "none", pre |-> arg,
                issued |-> 1, sent |-> <<>>]
    /\ cpc' = "door_call"
    /\ UNCHANGED <<cfds, fdHist, client, arg, ctor, result, kmaps, munmaps>>
    /\ UNCHANGED svars

\* A thread that does not wait for door_call: CallIsSynchronous tells it from
\* the right one.
DoorCallReturned_early == cpc \in {"blocked", "matching"}

\* door_call has returned to the calling thread, which was inside it until now.
DoorCallReturned == cpc = "matching"

\* Client::call after door_call: the match, and the drop of arg at the end of
\* the function when it was not moved into the result.
CallFinish ==
    /\ DoorCallReturned
    /\ LET m == CallMatch(arg, call.a, call.rc, call.errno) IN
        /\ result' = m.result
        /\ IF m.moved
           THEN /\ UNCHANGED <<kmaps, munmaps>>
                /\ cpc' = "idle"
           ELSE Drop(arg, "call", IF m.result = Panicked THEN "panicked" ELSE "idle")
    /\ arg' = NoArg
    /\ UNCHANGED <<cfds, fdHist, client, ctor, call>>
    /\ UNCHANGED svars

(***************************************************************************)
(* Response and Request (server.rs).                                       *)
(***************************************************************************)
EmptySlots == [i \in 1..ResponseSlots |-> door_desc_t_new(InvalidFd, TRUE)]

Response_new(data) ==
    [valid |-> TRUE, data |-> [some |-> TRUE, bytes |-> data],
     num_descriptors |-> 0, descriptors |-> EmptySlots]

Response_empty ==
    [valid |-> TRUE, data |-> [some |-> FALSE, bytes |-> <<>>],
     num_descriptors |-> 0, descriptors |-> EmptySlots]

\* A wrong add_descriptor, which overwrites the last slot of a full Response:
\* ResponseSlotsFilled tells it from the right one.
add_descriptor_overwrites(r, fd, release) ==
    IF r.num_descriptors = 2
    THEN [panic |-> FALSE,
          response |-> [r EXCEPT !.descriptors[2] = door_desc_t_new(fd, release)]]
    ELSE [panic |-> FALSE,
          response |-> [r EXCEPT !.descriptors[r.num_descriptors + 1] =
                                     door_desc_t_new(fd, release),
                                 !.num_descriptors = r.num_descriptors + 1]]

\* Response::add_descriptor: the Response with fd in its next slot, or a
\* panic when both slots are taken.
add_descriptor(r, fd, release) ==
    IF r.num_descriptors = 2
    THEN [panic |-> TRUE, response |-> NoResponse]
    ELSE [panic |-> FALSE,
          response |-> [r EXCEPT
              !.descriptors[r.num_descriptors + 1] = door_desc_t_new(fd, release),
              !.num_descriptors = r.num_descriptors + 1]]

\* A wrong Request, with the descriptors in reverse order: RequestMirrorsRaw
\* tells it from the right one.
c_wrapper_Request_reversed(rw) ==
    [valid |-> TRUE, cookie |-> AsU64(rw.cookie),
     data |-> SubSeq(rw.argp, 1, rw.arg_size),
     descriptors |-> [i \in 1..rw.n_desc |-> rw.dp[rw.n_desc + 1 - i]]]

\* The Request c_wrapper builds from the five raw arguments.
c_wrapper_Request(rw) ==
    [valid |-> TRUE, cookie |-> AsU64(rw.cookie),
     data |-> SubSeq(rw.argp, 1, rw.arg_size),
     descriptors |-> SubSeq(rw.dp, 1, rw.n_desc)]

\* The Request the wrapper generated by #[server_procedure] builds.
server_procedure_Request(rw) ==
    [valid |-> TRUE, cookie |-> AsU64(rw.cookie),
     data |-> SubSeq(rw.argp, 1, rw.arg_size),
     descriptors |-> SubSeq(rw.dp, 1, rw.n_desc)]

\* A wrong terminal call, which passes no descriptors: WrapperSteps tells it
\* from the right one.
c_wrapper_Return_no_descriptors(r) ==
    [valid |-> TRUE, data_ptr |-> IF r.data.some THEN "data" ELSE "null",
     data |-> r.data.bytes, data_size |-> Len(r.data.bytes),
     desc_ptr |-> r.descriptors, num_desc |-> 0]

\* The arguments c_wrapper gives door_return: the data pointer and length of
\* the Response (null and 0 without data), its descriptor array and count.
c_wrapper_Return(r) ==
    IF r.data.some
    THEN [valid |-> TRUE, data_ptr |-> "data", data |-> r.data.bytes,
          data_size |-> Len(r.data.bytes),
          desc_ptr |-> r.descriptors, num_desc |-> r.num_descriptors]
    ELSE [valid |-> TRUE, data_ptr |-> "null", data |-> <<>>, data_size |-> 0,
          desc_ptr |-> r.descriptors, num_desc |-> r.num_descriptors]

\* A wrong terminal call, which never passes data: EmptyIsNullReply tells it
\* from the right one.
server_procedure_Return_no_data(r) ==
    [valid |-> TRUE, data_ptr |-> "null", data |-> <<>>, data_size |-> 0,
     desc_ptr |-> r.descriptors, num_desc |-> r.num_descriptors]

\* The same match in the wrapper generated by #[server_procedure].
server_procedure_Return(r) ==
    IF r.data.some
    THEN [valid |-> TRUE, data_ptr |-> "data", data |-> r.data.bytes,
          data_size |-> Len(r.data.bytes),
          desc_ptr |-> r.descriptors, num_desc |-> r.num_descriptors]
    ELSE [valid |-> TRUE, data_ptr |-> "null", data |-> <<>>, data_size |-> 0,
          desc_ptr |-> r.descriptors, num_desc |-> r.num_descriptors]

(***************************************************************************)
(* The kernel: door_call.                                                  *)
(***************************************************************************)
\* The cookie create_server gives door_create.
FreeSlots(tbl) == Cardinality({n \in FdNums : tbl[n] = Closed})

IsOpen(tbl, n) == n \in FdNums /\ tbl[n] # Closed

HasReleaseBit(d) == (d.d_attributes \div DOOR_RELEASE) % 2 = 1

\* The descriptors of a call or a return move to the other process: each gets
\* the lowest free number there, and one marked DOOR_RELEASE is closed in the
\* sender.  orig is the sender's table when the transfer began.
RECURSIVE Transfer(_, _, _, _, _)
Transfer(descs, orig, from, to, out) ==
    IF descs = <<>>
    THEN [from |-> from, to |-> to, out |-> out]
    ELSE LET d == Head(descs)
             n == LowestFree(to)
         IN Transfer(Tail(descs), orig,
                     IF HasReleaseBit(d) THEN CloseFd(from, d.d_descriptor) ELSE from,
                     [to EXCEPT ![n] = orig[d.d_descriptor]],
                     Append(out, [d_attributes |-> DOOR_DESCRIPTOR, d_descriptor |-> n]))

Passable(descs, from, to) ==
    /\ \A i \in 1..Len(descs) : IsOpen(from, descs[i].d_descriptor)
    /\ FreeSlots(to) >= Len(descs)

ServerAlive == spc # "aborted"

DoorIsOpen ==
    /\ IsOpen(cfds, client.fd) /\ cfds[client.fd] = TheDoor
    /\ ServerAlive /\ door.made /\ ~door.revoked

\* The errno values with which door_call fails for this argument.
DoorCallFailures ==
    IF ~DoorIsOpen THEN {"EBADF"}
    ELSE (Errnos \ {"EBADF", "EMFILE"})
         \cup (IF \E i \in 1..arg.inner.desc_num :
                      ~IsOpen(cfds, arg.inner.desc[i].d_descriptor)
               THEN {"EBADF"} ELSE {})
         \cup (IF FreeSlots(sfds) < arg.inner.desc_num THEN {"EMFILE"} ELSE {})

\* door_call returns -1 and sets errno; the argument record is left as it was.
KernelDoorCallFails(e) ==
    /\ cpc = "door_call"
    /\ e \in DoorCallFailures
    /\ call' = [call EXCEPT !.rc = -1, !.errno = e]
    /\ cpc' = "matching"
    /\ UNCHANGED <<cfds, fdHist, client, arg, ctor, result, kmaps, munmaps>>
    /\ UNCHANGED svars

\* door_call reaches the door: the descriptors move to the server and a server
\* thread enters the server procedure with the five raw arguments.
KernelInvoke ==
    /\ cpc = "door_call" /\ DoorIsOpen /\ spc = "idle"
    /\ Passable(SubSeq(arg.inner.desc, 1, arg.inner.desc_num), cfds, sfds)
    /\ LET t == Transfer(SubSeq(arg.inner.desc, 1, arg.inner.desc_num),
                         cfds, cfds, sfds, <<>>) IN
        /\ cfds' = t.from
        /\ sfds' = t.to
        /\ raw' = [valid |-> TRUE, cookie |-> door.di_data,
                   argp |-> arg.inner.data, arg_size |-> arg.inner.data_size,
                   dp |-> t.out, n_desc |-> arg.inner.desc_num]
    /\ spc' = "entered"
    /\ cpc' = "blocked"
    /\ steps' = <<>>
    /\ UNCHANGED <<fdHist, client, arg, ctor, call, result, kmaps, munmaps>>
    /\ UNCHANGED <<request, response, added, ret, wrapper, count, inv, returned, buffer, door, jamb, install>>

(***************************************************************************)
(* The server thread: the wrapper and the user's server procedure.         *)
(***************************************************************************)
RequestOf(w, rw) ==
    IF w = "c_wrapper" THEN c_wrapper_Request(rw) ELSE server_procedure_Request(rw)

ReturnOf(w, r) ==
    IF w = "c_wrapper" THEN c_wrapper_Return(r) ELSE server_procedure_Return(r)

\* Step 1 of the wrapper: the Request is built from the raw arguments.
WrapperBuildRequest ==
    /\ spc = "entered"
    /\ request' = RequestOf(wrapper, raw)
    /\ steps' = Append(steps, "request")
    /\ spc' = "request"
    /\ UNCHANGED <<sfds, raw, response, added, ret, wrapper, count, inv, returned, buffer, door, jamb, install>>
    /\ UNCHANGED cvars

\* Step 2: the user logic is entered with the Request.
WrapperCallUser ==
    /\ spc = "request"
    /\ steps' = Append(steps, "server_procedure")
    /\ response' = NoResponse
    /\ added' = <<>>
    /\ spc' = "user"
    /\ UNCHANGED <<sfds, raw, request, ret, wrapper, count, inv, returned, buffer, door, jamb, install>>
    /\ UNCHANGED cvars

\* A wrapper that catches the panic of the user logic and goes on to its
\* terminal call: PanicNeverAnswers tells it from the right one.
AfterUserStep_caught(panic) == IF panic THEN "returned" ELSE "user"

\* Where the server thread stands after a step of the user logic.  The
\* wrapper calls server_procedure with nothing to catch a panic, and a panic
\* cannot unwind out of an extern "C" function: the server aborts.
AfterUserStep(panic) == IF panic THEN "aborted" ELSE "user"

\* User logic: File::open(..).unwrap() and into_raw_fd, as open_file does.
\* With no descriptor free the unwrap panics.
UserOpenFile ==
    /\ spc = "user" /\ ~response.valid
    /\ sfds' = IF HasFree(sfds) THEN [sfds EXCEPT ![LowestFree(sfds)] = TheFile]
                                ELSE sfds
    /\ spc' = AfterUserStep(~HasFree(sfds))
    /\ UNCHANGED <<raw, request, response, added, steps, ret, wrapper, count, inv, returned, buffer, door, jamb, install>>
    /\ UNCHANGED cvars

\* User logic: Response::new(data).
UserResponseNew(data) ==
    /\ spc = "user" /\ ~response.valid
    /\ response' = Response_new(data)
    /\ UNCHANGED <<sfds, spc, raw, request, added, steps, ret, wrapper, count, inv, returned, buffer, door, jamb, install>>
    /\ UNCHANGED cvars

\* User logic: Response::empty().
UserResponseEmpty ==
    /\ spc = "user" /\ ~response.valid
    /\ response' = Response_empty
    /\ UNCHANGED <<sfds, spc, raw, request, added, steps, ret, wrapper, count, inv, returned, buffer, door, jamb, install>>
    /\ UNCHANGED cvars

\* User logic: response.add_descriptor(fd, release).  A panic leaves the
\* extern "C" wrapper by aborting the server.
UserAddDescriptor(fd, release) ==
    /\ spc = "user" /\ response.valid
    /\ LET r == add_descriptor(response, fd, release) IN
        /\ response' = r.response
        /\ added' = IF r.panic THEN added ELSE Append(added, <<fd, release>>)
        /\ spc' = AfterUserStep(r.panic)
    /\ UNCHANGED <<sfds, raw, request, steps, ret, wrapper, count, inv, returned, buffer, door, jamb, install>>
    /\ UNCHANGED cvars

\* User logic returns its Response to the wrapper.
UserReturn ==
    /\ spc = "user" /\ response.valid
    /\ spc' = "returned"
    /\ UNCHANGED <<sfds, raw, request, response, added, steps, ret, wrapper, count, inv, returned, buffer, door, jamb, install>>
    /\ UNCHANGED cvars

\* Step 3: the wrapper issues the terminal call.
WrapperDoorReturn ==
    /\ spc = "returned"
    /\ ret' = ReturnOf(wrapper, response)
    /\ steps' = Append(steps, "door_return")
    /\ spc' = "door_return"
    /\ UNCHANGED <<sfds, raw, request, response, added, wrapper, count, inv, returned, buffer, door, jamb, install>>
    /\ UNCHANGED cvars

(***************************************************************************)
(* The kernel: door_return and the results of door_call.                   *)
(***************************************************************************)
\* The bytes the results take in the caller's buffer: the data, rounded up
\* to a descriptor's size when descriptors follow it, and the descriptors.
ResultSize(r) ==
    (IF r.num_desc > 0 THEN RoundUp(r.data_size, SizeofDoorDesc) ELSE r.data_size)
    + r.num_desc * SizeofDoorDesc

RbufUnmapped(x, maps) == x.rbuf.region = "kernel" /\ ~maps[x.rbuf.id].mapped

\* What door_call leaves in the argument record x for the results r whose
\* descriptors arrived as descsOut: the results are copied into rbuf when they
\* fit in rsize, and otherwise the kernel maps a new region, of whole pages,
\* and makes rbuf and rsize name it.
PlaceResults(x, r, descsOut, maps) ==
    IF ResultSize(r) = 0
    THEN [rc |-> 0, errno |-> "none", maps |-> maps,
          x |-> [x EXCEPT !.data_ptr = x.rbuf, !.data = <<>>, !.data_size = 0,
                          !.desc = <<>>, !.desc_num = 0]]
    ELSE IF ResultSize(r) <= x.rsize
    THEN IF RbufUnmapped(x, maps)
         THEN [rc |-> -1, errno |-> "EFAULT", maps |-> maps, x |-> x]
         ELSE [rc |-> 0, errno |-> "none", maps |-> maps,
               x |-> [x EXCEPT !.data_ptr = x.rbuf, !.data = r.data,
                               !.data_size = r.data_size,
                               !.desc = descsOut, !.desc_num = r.num_desc]]
    ELSE IF Len(maps) < MaxMaps
    THEN LET i == Len(maps) + 1
             sz == RoundUp(ResultSize(r), PageSize)
         IN [rc |-> 0, errno |-> "none",
             maps |-> Append(maps, [size |-> sz, mapped |-> TRUE, unmaps |-> 0]),
             x |-> [data_ptr |-> KernelMap(i), data |-> r.data,
                    data_size |-> r.data_size,
                    desc |-> descsOut, desc_num |-> r.num_desc,
                    rbuf |-> KernelMap(i), rsize |-> sz]]
    ELSE [rc |-> -1, errno |-> "EOVERFLOW", maps |-> maps, x |-> x]

ReassignAll(hist, before, after) ==
    [n \in FdNums |-> IF before[n] = Closed /\ after[n] # Closed /\ hist[n] # "fresh"
                      THEN "reassigned" ELSE hist[n]]

\* door_return: the results go to the caller, whose door_call returns, and the
\* server thread leaves the invocation for good.
KernelDoorReturn ==
    /\ spc = "door_return" /\ cpc = "blocked"
    /\ LET descs == SubSeq(ret.desc_ptr, 1, ret.num_desc) IN
       IF FreeSlots(cfds) < ret.num_desc
       THEN /\ call' = [call EXCEPT !.rc = -1, !.errno = "EMFILE"]
            /\ sfds' = Transfer(descs, sfds, sfds, [n \in FdNums |-> Closed], <<>>).from
            /\ UNCHANGED <<cfds, fdHist, arg, kmaps>>
       ELSE LET t == Transfer(descs, sfds, sfds, cfds, <<>>)
                p == PlaceResults(arg.inner, ret, t.out, kmaps)
            IN /\ sfds' = t.from
               /\ cfds' = IF p.rc = 0 THEN t.to ELSE cfds
               /\ fdHist' = IF p.rc = 0 THEN ReassignAll(fdHist, cfds, t.to) ELSE fdHist
               /\ arg' = [arg EXCEPT !.inner = p.x]
               /\ kmaps' = p.maps
               /\ call' = [call EXCEPT !.rc = p.rc, !.errno = p.errno,
                                       !.sent = SubSeq(ret.data, 1, ret.data_size)]
    /\ cpc' = "matching"
    /\ spc' = "idle"
    /\ raw' = NoRaw
    /\ request' = NoRequest
    /\ response' = NoResponse
    /\ added' = <<>>
    /\ steps' = <<>>
    /\ ret' = NoRet
    /\ UNCHANGED <<client, ctor, result, munmaps, wrapper, count, inv, returned, buffer, door, jamb, install>>

\* The server aborted during the invocation: door_call fails with EINTR.
KernelServerGone ==
    /\ spc = "aborted" /\ cpc = "blocked"
    /\ call' = [call EXCEPT !.rc = -1, !.errno = "EINTR"]
    /\ cpc' = "matching"
    /\ sfds' = [n \in FdNums |-> Closed]
    /\ raw' = NoRaw
    /\ request' = NoRequest
    /\ steps' = <<>>
    /\ ret' = NoRet
    /\ UNCHANGED <<cfds, fdHist, client, arg, ctor, result, kmaps, munmaps>>
    /\ UNCHANGED <<spc, response, added, wrapper, count, inv, returned, buffer, door, jamb, install>>

(***************************************************************************)
(* RawServerProcedure: the wrapper that hands the raw arguments on.        *)
(***************************************************************************)
\* The wrapper of RawServerProcedure builds the two slices and calls the
\* user's server_procedure(cookie, data, desc); the call is its last
\* statement.
RawWrapperCallUser ==
    /\ wrapper = "RawServerProcedure" /\ spc = "entered"
    /\ request' = c_wrapper_Request(raw)
    /\ steps' = Append(steps, "server_procedure")
    /\ spc' = "user"
    /\ UNCHANGED <<sfds, raw, response, added, ret, wrapper, count, inv, returned, buffer, door, jamb, install>>
    /\ UNCHANGED cvars

\* User logic of a raw server procedure that makes the terminal call itself,
\* with data and no descriptors.
RawUserDoorReturn(data) ==
    /\ wrapper = "RawServerProcedure" /\ spc = "user"
    /\ ret' = [valid |-> TRUE, data_ptr |-> "data", data |-> data,
               data_size |-> Len(data), desc_ptr |-> <<>>, num_desc |-> 0]
    /\ steps' = Append(steps, "door_return")
    /\ spc' = "door_return"
    /\ UNCHANGED <<sfds, raw, request, response, added, wrapper, count, inv, returned, buffer, door, jamb, install>>
    /\ UNCHANGED cvars

\* server_procedure returns (): the wrapper has no statement after the call
\* and returns to the kernel's caller of the server procedure.
RawWrapperReturn ==
    /\ wrapper = "RawServerProcedure" /\ spc = "user"
    /\ steps' = Append(steps, "return")
    /\ spc' = "exited"
    /\ UNCHANGED <<sfds, raw, request, response, added, ret, wrapper, count, inv, returned, buffer, door, jamb, install>>
    /\ UNCHANGED cvars

\* A server procedure that returns ends its thread; the invocation has no
\* results and door_call fails with EINTR.
KernelThreadExited ==
    /\ spc = "exited" /\ cpc = "blocked"
    /\ call' = [call EXCEPT !.rc = -1, !.errno = "EINTR"]
    /\ cpc' = "matching"
    /\ spc' = "idle"
    /\ raw' = NoRaw
    /\ request' = NoRequest
    /\ steps' = <<>>
    /\ UNCHANGED <<cfds, fdHist, client, arg, ctor, result, kmaps, munmaps>>
    /\ UNCHANGED <<sfds, response, added, ret, wrapper, count, inv, returned, buffer, door, jamb, install>>

(***************************************************************************)
(* The handler #[door_send_fd] generates from a function that returns      *)
(* (result, fds).                                                          *)
(***************************************************************************)
\* What the user's function returns: a result and a Vec of descriptors the
\* server holds.
SendFdResults == {<<1>>}
SendFdVecs ==
    UNION {{fds \in [1..n -> {m \in FdNums : sfds[m] = TheFile}] :
               \A i, j \in 1..n : i # j => fds[i] # fds[j]} : n \in 0..MaxSent}

\* What door_return finds where the handler points it for descriptors: the
\* handler passes the address of the Vec itself, cast, so the entries are
\* read from the Vec's own words and the stack behind them.  Each may be
\* anything, a well-formed descriptor of some number or not.
StackDescs ==
    {[d_attributes |-> 0, d_descriptor |-> InvalidFd]}
    \cup {door_desc_t_new(n, FALSE) : n \in FdNums}
StackArrays == [1..SizeofRawFd -> StackDescs]

\* The arguments the generated handler gives door_return for the pair the
\* user's function returned: the result as data, the address of fds as the
\* descriptor array and size_of::<RawFd>() as the number of descriptors.
door_send_fd_Return(r, stack) ==
    [valid |-> TRUE, data_ptr |-> "data", data |-> r.result,
     data_size |-> Len(r.result),
     desc_ptr |-> stack, num_desc |-> SizeofRawFd]

\* The generated handler is entered and runs the closure f, which reads the
\* argument and then the body of the user's function.
SendFdEnter ==
    /\ wrapper = "door_send_fd" /\ spc = "entered"
    /\ request' = c_wrapper_Request(raw)
    /\ steps' = Append(steps, "server_procedure")
    /\ response' = NoResponse
    /\ added' = <<>>
    /\ spc' = "user"
    /\ UNCHANGED <<sfds, raw, ret, wrapper, count, inv, returned, buffer, door, jamb, install>>
    /\ UNCHANGED cvars

\* The user's function returns (result, fds).
SendFdUserReturn(result_, fds) ==
    /\ wrapper = "door_send_fd" /\ spc = "user"
    /\ response' = [valid |-> TRUE, result |-> result_, fds |-> fds]
    /\ spc' = "returned"
    /\ UNCHANGED <<sfds, raw, request, added, steps, ret, wrapper, count, inv, returned, buffer, door, jamb, install>>
    /\ UNCHANGED cvars

\* The generated handler makes the terminal call.
SendFdDoorReturn(stack) ==
    /\ wrapper = "door_send_fd" /\ spc = "returned"
    /\ ret' = door_send_fd_Return(response, stack)
    /\ steps' = Append(steps, "door_return")
    /\ spc' = "door_return"
    /\ UNCHANGED <<sfds, raw, request, response, added, wrapper, count, inv, returned, buffer, door, jamb, install>>
    /\ UNCHANGED cvars

\* door_return with the handler's arguments.  Entries that are no open
\* descriptors make it fail in the server, whose thread then runs off the
\* end of the handler, and door_call fails with EINTR; entries that are
\* open descriptors are more than the caller has room for, and door_call
\* fails with EMFILE.
KernelSendFdReturn ==
    /\ wrapper = "door_send_fd" /\ spc = "door_return" /\ cpc = "blocked"
    /\ LET descs == SubSeq(ret.desc_ptr, 1, ret.num_desc)
           open == \A i \in 1..Len(descs) :
                      /\ descs[i].d_attributes # 0
                      /\ IsOpen(sfds, descs[i].d_descriptor)
       IN /\ open => FreeSlots(cfds) < ret.num_desc
          /\ call' = [call EXCEPT !.rc = -1,
                                  !.errno = IF open THEN "EMFILE" ELSE "EINTR"]
    /\ cpc' = "matching"
    /\ spc' = "idle"
    /\ raw' = NoRaw
    /\ request' = NoRequest
    /\ response' = NoResponse
    /\ steps' = <<>>
    /\ ret' = NoRet
    /\ UNCHANGED <<cfds, fdHist, client, arg, ctor, result, kmaps, munmaps>>
    /\ UNCHANGED <<sfds, added, wrapper, count, inv, returned, buffer, door, jamb, install>>

(***************************************************************************)
(* The server process: creating, installing and dropping the Door.         *)
(***************************************************************************)
DoorAttributes == {"none", "private"}

\* The arguments the constructors of ServerProcedure hand to door_create.
create_server_with_cookie_and_attributes(cookie, attrs) ==
    [cookie |-> cookie, attrs |-> attrs]

\* A constructor that forgets the cookie it was given: CookieReachesHandler
\* tells it from the right one.
create_server_with_cookie_forgets(cookie) ==
    create_server_with_cookie_and_attributes(DoorCookie, "none")

create_server_with_cookie(cookie) ==
    create_server_with_cookie_and_attributes(cookie, "none")

create_server_with_attributes(attrs) ==
    create_server_with_cookie_and_attributes(DoorCookie, attrs)

create_server == create_server_with_cookie_and_attributes(DoorCookie, "none")

\* The ways a server comes to be: the constructor, the cookie it is given
\* (DoorCookie for the constructors that take none) and what reaches
\* door_create.
ServerConstructions ==
    {[how |-> "create_server", given |-> DoorCookie, args |-> create_server]}
    \cup {[how |-> "create_server_with_attributes", given |-> DoorCookie,
           args |-> create_server_with_attributes(a)] : a \in DoorAttributes}
    \cup {[how |-> "create_server_with_cookie", given |-> c,
           args |-> create_server_with_cookie(c)] : c \in Cookies}
    \cup {[how |-> "create_server_with_cookie_and_attributes", given |-> c,
           args |-> create_server_with_cookie_and_attributes(c, a)] :
            c \in Cookies, a \in DoorAttributes}

\* door_create gives the door the lowest free descriptor of the server, and
\* the constructor wraps it in a Door.
CreateServer(mk) ==
    /\ ~door.made /\ HasFree(sfds)
    /\ LET n == LowestFree(sfds) IN
        /\ sfds' = [sfds EXCEPT ![n] = TheDoor]
        /\ door' = DoorOf(mk.how, mk.given, mk.args.cookie, n)
    /\ UNCHANGED <<spc, raw, request, response, added, steps, ret, wrapper, count, inv, returned, buffer,
                   jamb, install>>
    /\ UNCHANGED cvars

\* door_info on a descriptor of the server, and DoorInfo::cookie.
InfoOk(i) == [kind |-> "Ok", info |-> i]
InfoErr(e) == [kind |-> "Err", errno |-> e]

door_info(fd) ==
    IF door.made /\ fd = door.fd /\ ~door.revoked
    THEN InfoOk([di_data |-> AsU64(door.di_data)])
    ELSE InfoErr("EBADF")

DoorInfo_cookie(i) == i.di_data

\* A create_new_file without create_new, which takes over whatever the path
\* holds: JambNeverOverwrites tells it from the right one.
create_new_file_overwrites(at, ok) == [ok |-> TRUE, at |-> "jamb"]

\* create_new_file: a new, empty file when the path holds nothing, and an
\* error that leaves the path as it is when it holds anything, or when the
\* file system fails for a reason of its own (ok is FALSE).
create_new_file(at, ok) ==
    IF at = "absent" /\ ok THEN [ok |-> TRUE, at |-> "jamb"]
                           ELSE [ok |-> FALSE, at |-> at]

\* Door::install, first half: the jamb is created, or install returns
\* Err(InstallJamb).
InstallCreateJamb(ok) ==
    /\ door.made /\ door.held /\ install.pc \in {"idle", "done"}
    /\ LET f == create_new_file(jamb, ok) IN
        /\ jamb' = f.at
        /\ install' = IF f.ok THEN Installing("created_jamb", "none")
                              ELSE Installing("done", "InstallJamb")
    /\ UNCHANGED <<sfds, spc, raw, request, response, added, steps, ret,
                   wrapper, count, inv, returned, buffer, door>>
    /\ UNCHANGED cvars

\* An install that leaves the jamb where it is: FailedAttachRemovesJamb
\* tells it from the right one.
remove_file_skipped(at) == at

\* std::fs::remove_file on the jamb this install has just created.
remove_file(at) == "absent"

\* Door::install, second half: fattach puts the door on the jamb; when it
\* fails the jamb is removed again.
InstallAttach(ok) ==
    /\ install.pc = "created_jamb"
    /\ IF ok
       THEN /\ jamb' = "door"
            /\ install' = Installing("done", "Ok")
       ELSE /\ jamb' = remove_file(jamb)
            /\ install' = Installing("done", "AttachDoor")
    /\ UNCHANGED <<sfds, spc, raw, request, response, added, steps, ret,
                   wrapper, count, inv, returned, buffer, door>>
    /\ UNCHANGED cvars

\* A door_revoke that leaves the door as it is: RevokedOnDrop tells it from
\* the right one.
door_revoke_nothing(d) == d

\* door_revoke: the door takes no further calls.
door_revoke(d) == [d EXCEPT !.revoked = TRUE, !.revokes = @ + 1]

\* Drop for Door: door_revoke on the descriptor the handle holds.  install
\* borrows the handle, so the drop cannot fall inside it.
DoorDrop ==
    /\ door.made /\ door.held /\ install.pc # "created_jamb"
    /\ door' = [door_revoke(door) EXCEPT !.held = FALSE,
                                         !.inflight = (cpc = "blocked")]
    /\ UNCHANGED <<sfds, spc, raw, request, response, added, steps, ret,
                   wrapper, count, inv, returned, buffer, jamb, install>>
    /\ UNCHANGED cvars

(***************************************************************************)
(* Installing a server procedure with the first version of the crate.      *)
(***************************************************************************)
\* The two functions that install a server procedure: the one behind the
\* traits of server.rs and the method of the trait of server_procedure.rs.
Installers == {"install_server_procedure", "ServerProcedure::install"}

\* The server's descriptors when the jamb cannot be created: install of
\* server_procedure.rs closes the door descriptor, install_server_procedure
\* returns the error and leaves it.
AfterJambFailure(which, tbl, fd) ==
    IF which = "ServerProcedure::install" THEN CloseFd(tbl, fd) ELSE tbl

\* A further call of the install function.
InstallAgain ==
    /\ wrapper \in Installers /\ install.pc = "done"
    /\ install' = NotInstalling
    /\ UNCHANGED <<sfds, spc, raw, request, response, added, steps, ret,
                   wrapper, count, inv, returned, buffer, door, jamb>>
    /\ UNCHANGED cvars

\* door_create: the door gets the lowest free descriptor, or -1 comes back
\* and the function returns Err(CreateDoor).
InstallDoorCreate(cookie, ok) ==
    /\ wrapper \in Installers /\ install.pc = "idle"
    /\ ok => HasFree(sfds)
    /\ IF ok
       THEN /\ sfds' = [sfds EXCEPT ![LowestFree(sfds)] = TheDoor]
            /\ door' = DoorOf(wrapper, cookie, cookie, LowestFree(sfds))
            /\ install' = Installing("created_door", "none")
       ELSE /\ door' = NoDoor
            /\ install' = Installing("done", "CreateDoor")
            /\ UNCHANGED sfds
    /\ UNCHANGED <<spc, raw, request, response, added, steps, ret,
                   wrapper, count, inv, returned, buffer, jamb>>
    /\ UNCHANGED cvars

\* The jamb is created with create_new (O_CREAT | O_EXCL), or the function
\* returns Err(InstallJamb).
InstallJamb(ok) ==
    /\ wrapper \in Installers /\ install.pc = "created_door"
    /\ LET f == create_new_file(jamb, ok) IN
        /\ jamb' = f.at
        /\ install' = IF f.ok THEN Installing("created_jamb", "none")
                              ELSE Installing("done", "InstallJamb")
        /\ sfds' = IF f.ok THEN sfds ELSE AfterJambFailure(wrapper, sfds, door.fd)
    /\ UNCHANGED <<spc, raw, request, response, added, steps, ret,
                   wrapper, count, inv, returned, buffer, door>>
    /\ UNCHANGED cvars

\* fattach puts the door on the jamb; when it fails the door descriptor is
\* closed, the jamb removed and Err(AttachDoor) returned.
InstallFattach(ok) ==
    /\ wrapper \in Installers /\ install.pc = "created_jamb"
    /\ IF ok
       THEN /\ jamb' = "door"
            /\ install' = Installing("done", "Ok")
            /\ UNCHANGED sfds
       ELSE /\ sfds' = CloseFd(sfds, door.fd)
            /\ jamb' = remove_file(jamb)
            /\ install' = Installing("done", "AttachDoor")
    /\ UNCHANGED <<spc, raw, request, response, added, steps, ret,
                   wrapper, count, inv, returned, buffer, door>>
    /\ UNCHANGED cvars

\* Someone removes what the path holds, a file or an attached door.
PathRemoved ==
    /\ install.pc \in {"idle", "done"} /\ jamb # "absent"
    /\ jamb' = "absent"
    /\ UNCHANGED <<sfds, spc, raw, request, response, added, steps, ret,
                   wrapper, count, inv, returned, buffer, door, install>>
    /\ UNCHANGED cvars

(***************************************************************************)
(* The servers that share COUNT: two doors, increment and fetch, called by *)
(* several callers at once.  Each call gets a server thread of its own,    *)
(* which runs the wrapper and the handler of the door called.              *)
(***************************************************************************)
Handlers == {"increment", "fetch"}

\* A fetch_add on a counter with room for every count: FetchWrapsAtWidth
\* tells it from the right one.
fetch_add_wide(v, k) == v + k

\* AtomicU8::fetch_add and AtomicU8::load on the value v of COUNT: fetch_add
\* wraps around at the width of the counter.
fetch_add(v, k) == (v + k) % (2 ^ CounterBits)

load(v) == v

\* An increment that reads COUNT and leaves it: CountModuloWidth tells it
\* from the right one.
increment_forgets(v) == [count |-> load(v), response |-> Response_empty]

\* The handlers: what they leave in COUNT and the Response they return.
increment(v) == [count |-> fetch_add(v, 1), response |-> Response_empty]
fetch(v) == [count |-> v, response |-> Response_new(<<load(v)>>)]

HandlerOf(d, v) == IF d = "increment" THEN increment(v) ELSE fetch(v)

\* The calls that are under way, to any door and to the door d.
UnderWay == {c \in Callers : inv[c].pc # "idle"}
UnderWayTo(d) == {c \in UnderWay : inv[c].door = d}

\* A wrapper that serves one invocation at a time: Independent tells it from
\* the right one.
CanEnter_one_at_a_time(c) ==
    \A o \in Callers \ {c} : inv[o].pc \notin {"entered", "user", "returned"}

\* Whether the invocation for caller c may enter the server procedure: the
\* wrapper takes no lock and waits for nothing, so it always may.
CanEnter(c) == TRUE

onecall == <<cvars, sfds, spc, raw, request, response, added, steps, ret,
             wrapper, door, jamb, install>>

\* Caller c calls door d, unless cap increment calls have been made.  A fetch
\* is marked quiet when no increment is under way, and loses the mark when
\* one is begun during it.
KvCall(c, d, cap) ==
    /\ inv[c].pc = "idle"
    /\ d = "increment" => returned + Cardinality(UnderWayTo("increment")) < cap
    /\ inv' = [o \in Callers |->
                IF o = c
                THEN [pc |-> "door_call", door |-> d, response |-> NoResponse,
                      ret |-> NoRet, reply |-> <<>>,
                      quiet |-> (d = "fetch" /\ UnderWayTo("increment") = {})]
                ELSE IF d = "increment" THEN [inv[o] EXCEPT !.quiet = FALSE]
                ELSE inv[o]]
    /\ UNCHANGED <<count, returned, buffer>>
    /\ UNCHANGED onecall

\* door_call reaches the door and a server thread enters the wrapper.
KvInvoke(c) ==
    /\ inv[c].pc = "door_call" /\ CanEnter(c)
    /\ inv' = [inv EXCEPT ![c].pc = "entered"]
    /\ UNCHANGED <<count, returned, buffer>>
    /\ UNCHANGED onecall

\* The wrapper builds the Request and calls the handler.
KvRequest(c) ==
    /\ inv[c].pc = "entered"
    /\ inv' = [inv EXCEPT ![c].pc = "user"]
    /\ UNCHANGED <<count, returned, buffer>>
    /\ UNCHANGED onecall

\* The handler runs: its one access to COUNT is atomic.
KvHandler(c) ==
    /\ inv[c].pc = "user"
    /\ LET h == HandlerOf(inv[c].door, count) IN
        /\ count' = h.count
        /\ inv' = [inv EXCEPT ![c].pc = "returned", ![c].response = h.response]
    /\ UNCHANGED <<returned, buffer>>
    /\ UNCHANGED onecall

\* The wrapper makes the terminal call.
KvDoorReturn(c) ==
    /\ inv[c].pc = "returned"
    /\ inv' = [inv EXCEPT ![c].pc = "door_return",
                          ![c].ret = ReturnOf(wrapper, inv[c].response)]
    /\ UNCHANGED <<count, returned, buffer>>
    /\ UNCHANGED onecall

\* door_call returns to the caller with the reply.
KvReturn(c) ==
    /\ inv[c].pc = "door_return"
    /\ inv' = [inv EXCEPT ![c].pc = "done",
                          ![c].reply = SubSeq(inv[c].ret.data, 1, inv[c].ret.data_size),
                          ![c].response = NoResponse, ![c].ret = NoRet]
    /\ returned' = IF inv[c].door = "increment" THEN returned + 1 ELSE returned
    /\ UNCHANGED <<count, buffer>>
    /\ UNCHANGED onecall

\* The caller has read the reply and lets go of it.
KvDone(c) ==
    /\ inv[c].pc = "done"
    /\ inv' = [inv EXCEPT ![c] = NoInvocation]
    /\ UNCHANGED <<count, returned, buffer>>
    /\ UNCHANGED onecall

\* The steps of the calls under way.
KvServe ==
    \E c \in Callers :
        \/ KvInvoke(c)
        \/ KvRequest(c)
        \/ KvHandler(c)
        \/ KvDoorReturn(c)
        \/ KvReturn(c)
        \/ KvDone(c)

(***************************************************************************)
(* The capitalize servers: every invocation stages its reply in BUFFER.    *)
(***************************************************************************)
\* The payloads: lower-case ASCII letters.
Letters == {97, 98}
CapPayloads == UNION {[1..n -> Letters] : n \in 1..MaxLen}

\* str::to_ascii_uppercase.
to_ascii_uppercase(bytes) ==
    [i \in 1..Len(bytes) |-> IF bytes[i] \in 97..122 THEN bytes[i] - 32 ELSE bytes[i]]

\* Caller c calls the door with a payload.
CapCall(c, data) ==
    /\ inv[c].pc = "idle"
    /\ inv' = [inv EXCEPT ![c] =
                [pc |-> "door_call", door |-> "capitalize", payload |-> data,
                 slice |-> 0, response |-> NoResponse, ret |-> NoRet,
                 reply |-> <<>>, quiet |-> FALSE]]
    /\ UNCHANGED <<count, returned, buffer>>
    /\ UNCHANGED onecall

\* unsafe { BUFFER = capitalized }: the String of the invocation before is
\* dropped and BUFFER holds the upper-cased payload of this one.
CapWrite(c) ==
    /\ inv[c].pc = "user" /\ inv[c].door = "capitalize"
    /\ buffer' = [at |-> c, bytes |-> to_ascii_uppercase(inv[c].payload)]
    /\ inv' = [inv EXCEPT ![c].pc = "wrote"]
    /\ UNCHANGED <<count, returned>>
    /\ UNCHANGED onecall

\* Response::new(unsafe { BUFFER.as_bytes() }): a slice of whatever String
\* BUFFER holds now.
CapRead(c) ==
    /\ inv[c].pc = "wrote"
    /\ inv' = [inv EXCEPT ![c].pc = "returned",
                          ![c].slice = buffer.at,
                          ![c].response = Response_new(buffer.bytes)]
    /\ UNCHANGED <<count, returned, buffer>>
    /\ UNCHANGED onecall

\* What door_return finds at a slice of BUFFER: the bytes of the String when
\* it is still the one the slice was taken of, and any bytes of that length
\* when the String has been freed by a later assignment (a read of freed
\* memory).  An invocation that is not at door_return has none.
SliceContents(i) ==
    IF i.pc # "door_return" \/ i.door # "capitalize" THEN {}
    ELSE IF i.slice = buffer.at
    THEN {SubSeq(i.ret.data, 1, i.ret.data_size)}
    ELSE [1..i.ret.data_size -> Letters \cup {l - 32 : l \in Letters}]

\* door_return copies the reply to the caller, and door_call returns.
CapReturn(c, bytes) ==
    /\ inv[c].pc = "door_return" /\ inv[c].door = "capitalize"
    /\ bytes \in SliceContents(inv[c])
    /\ inv' = [inv EXCEPT ![c].pc = "done", ![c].reply = bytes,
                          ![c].response = NoResponse, ![c].ret = NoRet]
    /\ UNCHANGED <<count, returned, buffer>>
    /\ UNCHANGED onecall

(***************************************************************************)
(* The specifications.  Each explores the whole path of a call, from the   *)
(* caller through the kernel and the server thread and back, and differs   *)
(* from the others in the inputs the caller and the user logic choose.     *)
(***************************************************************************)
\* The files user logic can pass back: the ones the server holds.
ServerFiles == {n \in FdNums : sfds[n] = TheFile}

\* The server thread from the callback to the terminal call, for user logic
\* that answers with data only.
ServeData ==
    \/ KernelInvoke
    \/ WrapperBuildRequest
    \/ WrapperCallUser
    \/ \E data \in Payloads : UserResponseNew(data)
    \/ UserResponseEmpty
    \/ UserReturn
    \/ WrapperDoorReturn
    \/ KernelDoorReturn

\* Calls with every constructor, payload and response buffer, and no
\* descriptors: who owns the response buffer, and how failures are reported.
Next ==
    \/ ClientOpen
    \/ \E how \in Constructors, data \in Payloads, buf \in ResponseBuffers :
          NewArgument(how, data, <<>>, buf)
    \/ DropArgument
    \/ CallEnter
    \/ \E e \in Errnos : KernelDoorCallFails(e)
    \/ ServeData
    \/ CallFinish
    \/ DropResult
    \/ ReuseResult

Spec == Init /\ [][Next]_vars

\* A buffer with room for the data and the descriptors of a full Response.
DescriptorBuffer == [addr |-> CallerBuf, len |-> (ResponseSlots + 1) * SizeofDoorDesc]

\* Calls that pass descriptors, in both directions.
NextDescriptors ==
    \/ ClientOpen
    \/ CallerOpenFile
    \/ \E n \in FdNums : CallerCloseFile(n)
    \/ \E fds \in CallerDescriptors : NewArgument("new", <<>>, fds, DescriptorBuffer)
    \/ CallEnter
    \/ KernelDoorCallFails("EMFILE")
    \/ ServeData
    \/ UserOpenFile
    \/ \E fd \in ServerFiles, release \in BOOLEAN : UserAddDescriptor(fd, release)
    \/ KernelServerGone
    \/ CallFinish
    \/ DropResult

SpecDescriptors == Init /\ [][NextDescriptors]_vars

\* Client handles made, dropped and made again around plain calls.
NextHandles ==
    \/ ClientOpen
    \/ \E n \in FdNums : ClientFromRawFd(n)
    \/ ClientDrop
    \/ CallerOpenFile
    \/ \E n \in FdNums : CallerCloseFile(n)
    \/ NewArgument("new", <<>>, <<>>, DescriptorBuffer)
    \/ CallEnter
    \/ \E e \in Errnos : KernelDoorCallFails(e)
    \/ KernelInvoke
    \/ WrapperBuildRequest
    \/ WrapperCallUser
    \/ UserResponseEmpty
    \/ UserReturn
    \/ WrapperDoorReturn
    \/ KernelDoorReturn
    \/ CallFinish
    \/ DropResult

SpecHandles == Init /\ [][NextHandles]_vars

\* The life of the server: before any door exists the path holds nothing or
\* a file of someone else's; the server creates a door, installs it, serves
\* calls and drops the Door.
InitServer ==
    /\ cfds = [n \in FdNums |-> Closed]
    /\ sfds = [n \in FdNums |-> Closed]
    /\ fdHist = [n \in FdNums |-> "fresh"]
    /\ client = NoClient
    /\ arg = NoArg
    /\ ctor = NotMade
    /\ cpc = "idle"
    /\ call = NoCall
    /\ result = NoResult
    /\ kmaps = <<>>
    /\ munmaps = {}
    /\ spc = "idle"
    /\ raw = NoRaw
    /\ request = NoRequest
    /\ response = NoResponse
    /\ added = <<>>
    /\ steps = <<>>
    /\ ret = NoRet
    /\ wrapper \in Wrappers
    /\ door = NoDoor
    /\ jamb \in {"absent", "file"}
    /\ install = NotInstalling
    /\ count = 0
    /\ inv = [c \in Callers |-> NoInvocation]
    /\ returned = 0
    /\ buffer = String_new

NextServer ==
    \/ \E mk \in ServerConstructions : CreateServer(mk)
    \/ \E ok \in BOOLEAN : InstallCreateJamb(ok)
    \/ \E ok \in BOOLEAN : InstallAttach(ok)
    \/ DoorDrop
    \/ ClientOpen
    \/ ClientDrop
    \/ \E data \in Payloads : NewArgument("new", data, <<>>, DescriptorBuffer)
    \/ CallEnter
    \/ \E e \in {"EBADF", "EINTR"} : KernelDoorCallFails(e)
    \/ ServeData
    \/ CallFinish
    \/ DropResult

SpecServer == InitServer /\ [][NextServer]_vars

\* Increments from several callers at once, and a fetch once they have all
\* returned: no increment is begun while a fetch is under way.
NextCounter ==
    \/ \E c \in Callers :
          /\ UnderWayTo("fetch") = {}
          /\ KvCall(c, "increment", MaxIncrements)
    \/ \E c \in Callers :
          /\ UnderWay = {}
          /\ KvCall(c, "fetch", MaxIncrements)
    \/ KvServe

SpecCounter == Init /\ [][NextCounter]_vars

\* Calls to both doors from several callers, in any order.
NextConcurrent ==
    \/ \E c \in Callers, d \in Handlers : KvCall(c, d, MaxKnocks)
    \/ KvServe

SpecConcurrent == Init /\ [][NextConcurrent]_vars

\* A server whose door was made for a RawServerProcedure.
InitRaw ==
    /\ cfds = [n \in FdNums |-> Closed]
    /\ sfds = [n \in FdNums |-> IF n = 0 THEN TheDoor ELSE Closed]
    /\ fdHist = [n \in FdNums |-> "fresh"]
    /\ client = NoClient
    /\ arg = NoArg
    /\ ctor = NotMade
    /\ cpc = "idle"
    /\ call = NoCall
    /\ result = NoResult
    /\ kmaps = <<>>
    /\ munmaps = {}
    /\ spc = "idle"
    /\ raw = NoRaw
    /\ request = NoRequest
    /\ response = NoResponse
    /\ added = <<>>
    /\ steps = <<>>
    /\ ret = NoRet
    /\ wrapper = "RawServerProcedure"
    /\ door = DoorOf("RawServerProcedure::install", TestCookie, TestCookie, 0)
    /\ jamb = "door"
    /\ install = Installing("done", "Ok")
    /\ count = 0
    /\ inv = [c \in Callers |-> NoInvocation]
    /\ returned = 0
    /\ buffer = String_new

\* Calls to a raw server procedure, whose user logic either makes the
\* terminal call or returns.
NextRaw ==
    \/ ClientOpen
    \/ \E how \in Constructors, data \in Payloads, buf \in ResponseBuffers :
          NewArgument(how, data, <<>>, buf)
    \/ CallEnter
    \/ KernelInvoke
    \/ RawWrapperCallUser
    \/ \E data \in Payloads : RawUserDoorReturn(data)
    \/ RawWrapperReturn
    \/ KernelDoorReturn
    \/ KernelThreadExited
    \/ CallFinish
    \/ DropResult

SpecRaw == InitRaw /\ [][NextRaw]_vars

\* Payloads whose bytes differ, empty or of the greatest length, and lists
\* of files the caller holds, each to be released or not.
SentBytes == {1, 2}
SentPayloads == {<<>>} \cup [1..MaxSent -> SentBytes]
SentDescriptors ==
    UNION {{fds \in [1..n -> CallerFiles \X BOOLEAN] :
               \A i, j \in 1..n : i # j => fds[i][1] # fds[j][1]} : n \in 0..MaxSent}

\* Calls that carry a payload and descriptors to a handler that answers with
\* nothing: what the Request holds.  The caller opens the door first and
\* then the files it passes.
NextRequest ==
    \/ ClientOpen
    \/ client.live /\ CallerOpenFile
    \/ \E data \in SentPayloads, fds \in SentDescriptors :
          NewArgument("new", data, fds, DescriptorBuffer)
    \/ CallEnter
    \/ KernelInvoke
    \/ WrapperBuildRequest
    \/ WrapperCallUser
    \/ UserResponseEmpty
    \/ UserReturn
    \/ WrapperDoorReturn
    \/ KernelDoorReturn
    \/ CallFinish
    \/ DropResult

SpecRequest == Init /\ [][NextRequest]_vars

\* A server that has made no door yet and installs its procedure with one of
\* the two functions of the first version.
InitInstall ==
    /\ cfds = [n \in FdNums |-> Closed]
    /\ sfds = [n \in FdNums |-> Closed]
    /\ fdHist = [n \in FdNums |-> "fresh"]
    /\ client = NoClient
    /\ arg = NoArg
    /\ ctor = NotMade
    /\ cpc = "idle"
    /\ call = NoCall
    /\ result = NoResult
    /\ kmaps = <<>>
    /\ munmaps = {}
    /\ spc = "idle"
    /\ raw = NoRaw
    /\ request = NoRequest
    /\ response = NoResponse
    /\ added = <<>>
    /\ steps = <<>>
    /\ ret = NoRet
    /\ wrapper \in Installers
    /\ door = NoDoor
    /\ jamb \in {"absent", "file"}
    /\ install = NotInstalling
    /\ count = 0
    /\ inv = [c \in Callers |-> NoInvocation]
    /\ returned = 0
    /\ buffer = String_new

\* Installs that succeed or fail at each of their three steps, again and
\* again, and clients that open the path.
NextInstall ==
    \/ \E c \in Cookies, ok \in BOOLEAN : InstallDoorCreate(c, ok)
    \/ \E ok \in BOOLEAN : InstallJamb(ok)
    \/ \E ok \in BOOLEAN : InstallFattach(ok)
    \/ InstallAgain
    \/ PathRemoved
    \/ ClientOpen
    \/ ClientDrop

SpecInstall == InitInstall /\ [][NextInstall]_vars

\* Calls to a capitalize server from several callers, in any order.
NextCapitalize ==
    \/ \E c \in Callers, data \in CapPayloads : CapCall(c, data)
    \/ \E c \in Callers :
          \/ KvInvoke(c)
          \/ KvRequest(c)
          \/ CapWrite(c)
          \/ CapRead(c)
          \/ KvDoorReturn(c)
          \/ \E bytes \in SliceContents(inv[c]) : CapReturn(c, bytes)
          \/ KvDone(c)

SpecCapitalize == Init /\ [][NextCapitalize]_vars

\* A server whose door was made with a handler generated by #[door_send_fd].
InitSendFd ==
    /\ cfds = [n \in FdNums |-> Closed]
    /\ sfds = [n \in FdNums |-> IF n = 0 THEN TheDoor ELSE Closed]
    /\ fdHist = [n \in FdNums |-> "fresh"]
    /\ client = NoClient
    /\ arg = NoArg
    /\ ctor = NotMade
    /\ cpc = "idle"
    /\ call = NoCall
    /\ result = NoResult
    /\ kmaps = <<>>
    /\ munmaps = {}
    /\ spc = "idle"
    /\ raw = NoRaw
    /\ request = NoRequest
    /\ response = NoResponse
    /\ added = <<>>
    /\ steps = <<>>
    /\ ret = NoRet
    /\ wrapper = "door_send_fd"
    /\ door = DoorOf("door_create", DoorCookie, DoorCookie, 0)
    /\ jamb = "door"
    /\ install = Installing("done", "Ok")
    /\ count = 0
    /\ inv = [c \in Callers |-> NoInvocation]
    /\ returned = 0
    /\ buffer = String_new

\* Calls to a handler that opens files and returns some of them.
NextSendFd ==
    \/ ClientOpen
    \/ \E data \in Payloads : NewArgument("new", data, <<>>, DescriptorBuffer)
    \/ CallEnter
    \/ KernelInvoke
    \/ SendFdEnter
    \/ UserOpenFile
    \/ \E r \in SendFdResults, fds \in SendFdVecs : SendFdUserReturn(r, fds)
    \/ \E stack \in StackArrays : SendFdDoorReturn(stack)
    \/ KernelSendFdReturn
    \/ KernelServerGone
    \/ CallFinish
    \/ DropResult

SpecSendFd == InitSendFd /\ [][NextSendFd]_vars

(***************************************************************************)
(* Properties of Client::call (specification Spec).                        *)
(***************************************************************************)
\* The step in which Client::call returns: the match on door_call's result.
Returning == cpc = "matching"

\* C1: a successful call whose argument was built with DoorArgument::new
\* returns BorrowedRbuf exactly when rbuf in the record after door_call is
\* the address the argument had before it, and otherwise an OwnedRbuf of the
\* rbuf and rsize the kernel left in the record.
ClassifiedByAddress ==
    [][(Returning /\ call.rc = 0 /\ ctor.how = "new") =>
          LET x == arg.inner
              before == rbuf_addr(call.pre.inner)
          IN /\ result'.kind = "Ok"
             /\ result'.arg.variant \in {"BorrowedRbuf", "OwnedRbuf"}
             /\ (result'.arg.variant = "BorrowedRbuf") <=> (x.rbuf = before)
             /\ result'.arg.variant = "OwnedRbuf" =>
                   /\ result'.arg.inner.rbuf = x.rbuf
                   /\ result'.arg.inner.rsize = x.rsize]_vars

\* A call of an argument built with new has returned an OwnedRbuf of a region
\* other than the buffer the caller supplied.
ClassifiedOwned ==
    /\ ctor.how = "new" /\ result.kind = "Ok"
    /\ result.arg.variant = "OwnedRbuf"
    /\ result.arg.inner.rbuf # call.pre.inner.rbuf
    /\ result.arg.inner.rsize = PageSize

\* The capacity the caller supplied and the length of the reply it got.
Supplied == ctor.cap
ReplyLength == result.arg.inner.data_size
SuppliedCall == ctor.how = "new" /\ result.kind = "Ok" /\ result.arg.inner.desc_num = 0

OwnsKernelRegion(a) == a.variant = "OwnedRbuf" /\ a.inner.rbuf.region = "kernel"

\* C3: the region of an OwnedRbuf a call returned is unmapped once, by the
\* drop of the returned DoorArgument: it is not unmapped inside call, where
\* the consumed argument goes out of scope, and no region is unmapped twice.
UnmappedOnceByResult ==
    /\ (result.kind = "Ok" /\ OwnsKernelRegion(result.arg)) =>
          /\ kmaps[result.arg.inner.rbuf.id].mapped
          /\ \A m \in munmaps : m.at = "call" => m.addr # result.arg.inner.rbuf
    /\ \A i \in 1..Len(kmaps) : kmaps[i].unmaps <= 1

\* C27: when an OwnedRbuf argument is passed to Client::call and the kernel
\* puts a new region in place of its buffer, the returned DoorArgument wraps
\* a region that is still mapped, the drop of the consumed argument inside
\* call has unmapped no region the result wraps, and no region the kernel
\* mapped is unmapped more than once.
OwnedInputKeepsResultMapped ==
    (/\ result.kind = "Ok" /\ call.pre.variant = "OwnedRbuf"
     /\ result.arg.inner.rbuf # call.a) =>
        /\ OwnsKernelRegion(result.arg)
        /\ ~RbufUnmapped(result.arg.inner, kmaps)
        /\ \A m \in munmaps : m.addr # result.arg.inner.rbuf
        /\ \A i \in 1..Len(kmaps) : kmaps[i].unmaps <= 1

\* C4: every region given to munmap is one the kernel mapped during a
\* door_call; a buffer the caller supplied is never unmapped.
OnlyKernelRegionsUnmapped == \A m \in munmaps : m.addr.region = "kernel"

\* C5: Client::call returns Ok only if door_call returned 0; when door_call
\* returned non-zero it returns no DoorArgument: an Err of a DoorCallError
\* and nothing else, or no value at all (the panic of C6).
ErrOnFailure ==
    /\ result.kind = "Ok" => call.rc = 0
    /\ (result # NoResult /\ call.rc # 0) =>
          /\ result.kind \in {"Err", "Panic"}
          /\ result.kind = "Err" =>
                /\ DOMAIN result = {"kind", "err"}
                /\ result.err \in DoorCallErrors
          /\ call.errno \in DocumentedErrnos => result.kind = "Err"

\* A failed door_call has been reported as an Err.
FailureReported == result.kind = "Err" /\ call.rc = -1 /\ call.errno = "EAGAIN"

\* C6: each of the eleven documented errno values yields the DoorCallError
\* of its own name, so distinct values yield distinct variants; any other
\* value makes Client::call panic: it returns neither Ok nor an Err.
ErrnoMapping ==
    /\ \A e \in DocumentedErrnos : DoorCallErrorOf(e) = Variant(e)
    /\ \A e, f \in DocumentedErrnos : e # f => DoorCallErrorOf(e) # DoorCallErrorOf(f)
    /\ Cardinality(DocumentedErrnos) = 11
    /\ \A e \in Errnos \ DocumentedErrnos : DoorCallErrorOf(e) \notin DoorCallErrors
    /\ (result # NoResult /\ call.rc # 0) =>
          IF call.errno \in DocumentedErrnos
          THEN result = Err(Variant(call.errno))
          ELSE result = Panicked /\ cpc = "panicked"

\* door_call failed with an errno the match does not list, and call panicked.
UnlistedErrnoPanics ==
    /\ call.rc = -1 /\ call.errno \in UndocumentedErrnos
    /\ result = Panicked /\ cpc = "panicked"

(***************************************************************************)
(* Properties of Client handles (specification SpecHandles).               *)
(***************************************************************************)
\* A call through the handle in hand has returned.
CallReturned == client.live /\ client.fd \in FdNums /\ result # NoResult

\* C7, as the claim words it: once a Client has been dropped, every later
\* call through a Client of the same descriptor value returns Err(EBADF).
DroppedValueIsInvalid ==
    (CallReturned /\ fdHist[client.fd] \in {"dropped", "reassigned"}) =>
        result = Err(Variant("EBADF"))

\* C7, amended: once a Client has been dropped, a call through a Client of
\* the same descriptor value returns Err(EBADF) for as long as no later open
\* has handed that value out again.
DroppedHandleIsInvalid ==
    (CallReturned /\ fdHist[client.fd] = "dropped") => result = Err(Variant("EBADF"))

\* A call through a handle whose descriptor a dropped Client closed failed
\* with EBADF.
CalledDroppedHandle ==
    /\ CallReturned /\ fdHist[client.fd] = "dropped"
    /\ cfds[client.fd] = Closed
    /\ result = Err(Variant("EBADF"))

(***************************************************************************)
(* Properties of descriptor passing, Response and the wrappers             *)
(* (specification SpecDescriptors).                                        *)
(***************************************************************************)
\* What one door_call or door_return does with the descriptors fds, each a
\* pair <<descriptor, release>> of the sender: the receiver gets a descriptor
\* of its own for each, out[i]; the sender's descriptor is closed when it was
\* to be released (using a closed descriptor fails with EBADF) and is left as
\* it was otherwise.  A descriptor passed twice in one call is left aside.
Relayed(fds, from, fromAfter, to, toAfter, out) ==
    /\ Len(out) = Len(fds)
    /\ \A i \in 1..Len(fds) :
          LET fd == fds[i][1]
              release == fds[i][2]
              got == out[i].d_descriptor
          IN (\A j \in 1..Len(fds) : fds[j][1] = fd => j = i) =>
                /\ release => ~IsOpen(fromAfter, fd)
                /\ ~release => IsOpen(fromAfter, fd) /\ fromAfter[fd] = from[fd]
                /\ ~IsOpen(to, got) /\ IsOpen(toAfter, got)
                /\ toAfter[got] = from[fd]
                /\ \A j \in 1..Len(out) : j # i => out[j].d_descriptor # got

ResponseSlotsFilled ==
    /\ Len(added) <= 2
    /\ response.valid =>
          /\ response.num_descriptors \in 0..2
          /\ response.num_descriptors = Len(added)
          /\ Len(response.descriptors) = 2
          /\ \A i \in 1..Len(added) :
                /\ response.descriptors[i].d_descriptor = added[i][1]
                /\ HasReleaseBit(response.descriptors[i]) = added[i][2]
          /\ response.num_descriptors = 2 =>
                \A fd \in FdNums, release \in BOOLEAN :
                   LET r == add_descriptor(response, fd, release)
                   IN r.panic /\ r.response = NoResponse
    /\ (spc = "aborted" /\ Len(added) = 2) => response = NoResponse

\* A third add_descriptor panicked: the server thread aborted with no
\* Response.
ThirdDescriptorPanicked ==
    spc = "aborted" /\ Len(added) = 2 /\ response = NoResponse /\ cpc = "blocked"

\* The steps of a wrapper, in order.
WrapperOrder == <<"request", "server_procedure", "door_return">>

\* C10: an invocation of either wrapper builds the Request, calls the user
\* logic once and then issues door_return once, in this order, with the data
\* pointer and length of the Response and its num_descriptors descriptors;
\* nothing of the invocation runs after door_return.
WrapperSteps ==
    /\ Len(steps) <= Len(WrapperOrder)
    /\ steps = SubSeq(WrapperOrder, 1, Len(steps))
    /\ spc = "entered" => steps = <<>>
    /\ spc = "request" => steps = SubSeq(WrapperOrder, 1, 1) /\ request.valid
    /\ spc \in {"user", "returned"} => steps = SubSeq(WrapperOrder, 1, 2)
    /\ spc = "door_return" =>
          /\ steps = WrapperOrder
          /\ response.valid /\ ret.valid
          /\ ret.data_ptr = (IF response.data.some THEN "data" ELSE "null")
          /\ ret.data_size = (IF response.data.some THEN Len(response.data.bytes) ELSE 0)
          /\ ret.data = (IF response.data.some THEN response.data.bytes ELSE <<>>)
          /\ ret.num_desc = response.num_descriptors
          /\ SubSeq(ret.desc_ptr, 1, ret.num_desc) =
                SubSeq(response.descriptors, 1, response.num_descriptors)

\* A wrapper has issued door_return with data and two descriptors.
ReturnedWithDescriptors ==
    /\ spc = "door_return" /\ steps = WrapperOrder
    /\ ret.num_desc = 2 /\ ret.data_size > 0

\* C11: for a Response without data (Response::empty) the wrapper issues
\* door_return with a null data pointer and length 0, and the caller gets a
\* zero-length reply; for one with data d (Response::new(d)) it passes the
\* bytes of d and their length; the num_descriptors descriptors of the
\* Response are passed in both cases.
EmptyIsNullReply ==
    [][/\ (spc = "returned" /\ spc' = "door_return") =>
             /\ IF response.data.some
                THEN /\ ret'.data_ptr = "data"
                     /\ ret'.data = response.data.bytes
                     /\ ret'.data_size = Len(response.data.bytes)
                ELSE /\ ret'.data_ptr = "null"
                     /\ ret'.data_size = 0
             /\ ret'.num_desc = response.num_descriptors
             /\ ret'.desc_ptr = response.descriptors
       /\ (spc = "door_return" /\ cpc' = "matching" /\ call'.rc = 0) =>
             /\ arg'.inner.data_size = ret.data_size
             /\ arg'.inner.data = SubSeq(ret.data, 1, ret.data_size)
             /\ arg'.inner.desc_num = ret.num_desc]_vars

\* A wrapper has issued door_return for a Response::empty that holds one
\* descriptor.
EmptyReturnedWithDescriptor ==
    /\ spc = "door_return" /\ ~response.data.some
    /\ response.num_descriptors = 1
    /\ ret.data_ptr = "null" /\ ret.data_size = 0 /\ ret.num_desc = 1


(***************************************************************************)
(* Properties of the server's Door (specification SpecServer).             *)
(***************************************************************************)
\* C12: every invocation of the handler receives, as Request.cookie, the
\* cookie the door was created with (0 for create_server and
\* create_server_with_attributes), and door_info on the door reports that
\* same cookie.
CookieReachesHandler ==
    /\ request.valid => request.cookie = door.given
    /\ (door.made /\ ~door.revoked) =>
          /\ door_info(door.fd).kind = "Ok"
          /\ DoorInfo_cookie(door_info(door.fd).info) = door.given

\* The handler of a door made with cookie 7 is running, and holds 7.
HandlerHoldsTestCookie ==
    /\ spc = "user" /\ request.valid
    /\ door.how = "create_server_with_cookie" /\ door.given = TestCookie
    /\ request.cookie = TestCookie


\* C16: dropping the Door revokes the door, once.  After the drop no
\* invocation of the handler starts and every door_call on the door fails;
\* an invocation in flight at the drop is not disturbed by it and may run
\* to its terminal call.  The door is revoked at most once, and exactly once
\* when its handle is gone.
RevokedOnDrop ==
    [][/\ (door.held /\ ~door'.held) =>
             /\ door'.revoked /\ door'.revokes = door.revokes + 1
             /\ UNCHANGED <<spc, raw, request, response, ret, cpc, call, arg>>
       /\ door.revoked => ~(spc # "entered" /\ spc' = "entered")
       /\ (door.revoked /\ cpc = "door_call" /\ cpc' # "door_call") =>
             /\ cpc' = "matching" /\ call'.rc = -1 /\ call'.errno = "EBADF"
       /\ door'.revokes <= 1
       /\ (door'.made /\ ~door'.held) => door'.revokes = 1]_vars

\* The Door was dropped while a call was in flight, and that call has
\* returned Ok to its caller all the same.
InFlightCallCompleted ==
    /\ door.revoked /\ ~door.held /\ door.inflight
    /\ result.kind = "Ok" /\ call.rc = 0

\* C19: Door::install on a path that holds a file returns Err(InstallJamb)
\* at once: it does not go on to fattach, and it leaves what the path holds,
\* the door and the server's descriptors as they were.
JambNeverOverwrites ==
    [][(install.pc \in {"idle", "done"} /\ install' # install /\ jamb # "absent") =>
            /\ install' = Installing("done", "InstallJamb")
            /\ jamb' = jamb
            /\ door' = door
            /\ sfds' = sfds]_vars

\* install has failed on a path that held a file of someone else's, which is
\* still there, and the door is still the server's to install elsewhere.
InstallFoundFile ==
    /\ install = Installing("done", "InstallJamb")
    /\ jamb = "file"
    /\ door.made /\ door.held /\ ~door.revoked

Opens == ~client.live /\ client'.live

\* C26 as stated: while Door::install is between the creation of the jamb
\* and fattach, the path cannot be opened as a plain file.
NeverOpenedAsFile ==
    [][(Opens /\ install.pc = "created_jamb") => cfds'[client'.fd] = TheDoor]_vars

\* C26, amended: once Door::install has returned Ok an open of the path
\* gives a descriptor of this door, and a door call that is delivered goes
\* to this door's handler, on a descriptor of the door that is not revoked;
\* between the creation of the jamb and fattach an open gives the plain
\* file, and a door call on that descriptor fails with EBADF and reaches no
\* handler.
InstalledPathOpensDoor ==
    [][/\ (Opens /\ install = Installing("done", "Ok")) =>
             cfds'[client'.fd] = TheDoor
       /\ (Opens /\ install.pc = "created_jamb") =>
             cfds'[client'.fd] = TheFile
       /\ (cpc = "door_call" /\ cpc' = "blocked") =>
             /\ cfds[client.fd] = TheDoor /\ ~door.revoked
             /\ spc' = "entered" /\ raw'.cookie = door.di_data
       /\ (cpc = "door_call" /\ cpc' # "door_call" /\ cfds[client.fd] = TheFile) =>
             /\ cpc' = "matching" /\ call'.rc = -1 /\ call'.errno = "EBADF"
             /\ spc' = spc]_vars

\* A client that opened the path before fattach holds the plain file while
\* the door is attached, and its call has failed with EBADF.
OpenedInTheWindow ==
    /\ jamb = "door" /\ client.live /\ cfds[client.fd] = TheFile
    /\ result.kind = "Err" /\ call.errno = "EBADF"

(***************************************************************************)
(* Properties of the call as a whole.                                      *)
(***************************************************************************)
\* C17: Client::call issues door_call once.  door_call is entered only at
\* the start of Client::call; when it fails with EINTR the call returns
\* Err(DoorCallError::EINTR) without entering door_call again, and no other
\* failure is reported as EINTR.
IssuedOnce ==
    [][/\ call'.issued <= 1
       /\ (cpc # "door_call" /\ cpc' = "door_call") =>
             /\ cpc = "idle" /\ result = NoResult
             /\ call'.issued = 1
       /\ (cpc = "matching" /\ cpc' # "matching" /\ call.rc = -1) =>
             /\ cpc' # "door_call" /\ call'.issued = 1
             /\ call.errno = "EINTR" => result' = Err(Variant("EINTR"))
             /\ call.errno # "EINTR" => result' # Err(Variant("EINTR"))]_vars

\* An interrupted door_call has been reported, after one door_call.
InterruptedOnce ==
    /\ cpc = "idle" /\ result = Err(Variant("EINTR"))
    /\ call.issued = 1 /\ call.errno = "EINTR"

\* C13: Client::call is synchronous.  From the moment door_call is issued
\* until it returns, nothing the calling thread owns changes; door_call
\* returns 0 only from the terminal call of the invocation it started; and
\* Client::call returns Ok only after door_call has returned 0.
CallIsSynchronous ==
    [][/\ (cpc \in {"door_call", "blocked"} /\ cpc' \in {"door_call", "blocked"}) =>
             UNCHANGED <<client, arg, ctor, call, result, kmaps, munmaps>>
       /\ (cpc # "matching" /\ cpc' = "matching" /\ call'.rc = 0) =>
             /\ cpc = "blocked" /\ spc = "door_return" /\ ret.valid
             /\ steps # <<>> /\ steps[Len(steps)] = "door_return"
       /\ (result.kind # "Ok" /\ result'.kind = "Ok") =>
             /\ cpc = "matching" /\ call.rc = 0
             /\ spc # "door_return"]_vars

\* A call has returned Ok with the data the handler passed to door_return.
OkAfterTerminalCall ==
    /\ cpc = "idle" /\ result.kind = "Ok" /\ spc = "idle"
    /\ result.arg.inner.data_size = MaxLen

\* C14: the data of the result of a call can be read, and are exactly the
\* bytes, with exactly the length, the handler passed to its terminal call;
\* for a handler that echoes the payload P they are P.
RoundTrip ==
    (result.kind = "Ok") =>
        /\ DataReadable(result.arg.inner, kmaps)
        /\ DoorArgument_data(result.arg) = call.sent
        /\ Len(DoorArgument_data(result.arg)) = Len(call.sent)
        /\ result.arg.inner.data_size = Len(call.sent)

\* C18: before the call rbuf() has the capacity the caller supplied; the
\* rbuf() of a BorrowedRbuf result is the supplied buffer with the length the
\* kernel left, never more than that capacity; the rbuf() of an OwnedRbuf
\* result that names a new region has the size of the kernel's mapping.
RbufLengths ==
    /\ (arg # NoArg /\ cpc = "idle") => DoorArgument_rbuf(arg).len = ctor.cap
    /\ (result.kind = "Ok" /\ result.arg.variant = "BorrowedRbuf") =>
          /\ DoorArgument_rbuf(result.arg).addr = call.pre.inner.rbuf
          /\ DoorArgument_rbuf(result.arg).len <= ctor.cap
    /\ (result.kind = "Ok" /\ result.arg.variant = "OwnedRbuf"
            /\ result.arg.inner.rbuf # call.pre.inner.rbuf) =>
          /\ DoorArgument_rbuf(result.arg).addr.region = "kernel"
          /\ DoorArgument_rbuf(result.arg).len
                = kmaps[DoorArgument_rbuf(result.arg).addr.id].size
          /\ DoorArgument_rbuf(result.arg).len
                = RoundUp(ResultSize([data_size |-> Len(call.sent), num_desc |-> 0]),
                          PageSize)

\* The rbuf() of an OwnedRbuf result is a page long, more than the capacity
\* the caller supplied.
OwnedLongerThanSupplied ==
    /\ result.kind = "Ok" /\ result.arg.variant = "OwnedRbuf"
    /\ ctor.how = "new"
    /\ DoorArgument_rbuf(result.arg).len = PageSize
    /\ DoorArgument_rbuf(result.arg).len > ctor.cap

(***************************************************************************)
(* Properties of the servers that share COUNT (specifications SpecCounter  *)
(* and SpecConcurrent).                                                    *)
(***************************************************************************)
\* The increment handlers that have run and whose call has not yet returned.
RanNotReturned ==
    {c \in UnderWayTo("increment") : inv[c].pc \in {"returned", "door_return"}}

\* The fetch calls that have returned and ran with no increment under way.
QuietFetches ==
    {c \in Callers : inv[c].pc = "done" /\ inv[c].door = "fetch" /\ inv[c].quiet}

\* C15, as the claim words it: a fetch made after N increment calls have
\* returned, with none under way, returns exactly N.
FetchIsCount ==
    \A c \in QuietFetches : inv[c].reply = <<returned>>

\* C15, amended: no increment is lost, COUNT being the number of increment
\* handlers that have run, modulo 2^8; and a fetch made after N increment
\* calls have returned, with none under way, returns N modulo 2^8.
CountModuloWidth ==
    /\ count = (returned + Cardinality(RanNotReturned)) % (2 ^ CounterBits)
    /\ \A c \in QuietFetches : inv[c].reply = <<returned % (2 ^ CounterBits)>>

\* A fetch made after more increment calls than COUNT can hold has returned
\* what is left of their number.
FetchAfterWrap ==
    \E c \in QuietFetches :
        /\ returned > 2 ^ CounterBits
        /\ inv[c].reply = <<returned - 2 ^ CounterBits>>

\* C29: COUNT is an 8-bit counter.  It holds one byte, the value a fetch
\* returns after N increment calls have returned, with none under way, is N
\* modulo 256, and it is N itself exactly when N is less than 256.
FetchWrapsAtWidth ==
    /\ count \in 0..(2 ^ CounterBits - 1)
    /\ \A c \in QuietFetches :
          /\ Len(inv[c].reply) = 1
          /\ inv[c].reply[1] \in 0..(2 ^ CounterBits - 1)
          /\ inv[c].reply[1] = returned % (2 ^ CounterBits)
          /\ (inv[c].reply[1] = returned) <=> (returned < 2 ^ CounterBits)

\* A fetch made after exactly 256 increment calls has returned 0.
FetchAtTheWrap ==
    \E c \in QuietFetches :
        /\ returned = 2 ^ CounterBits
        /\ inv[c].reply = <<0>> /\ count = 0

PanicNeverAnswers ==
    [][/\ (spc = "user" /\ spc' # "user" /\ ~response'.valid) =>
             /\ spc' = "aborted" /\ ret' = NoRet
             /\ cpc' = "blocked" /\ result' = NoResult
       /\ spc = "aborted" =>
             /\ spc' = "aborted" /\ ret' = NoRet
             /\ result'.kind # "Ok"
       /\ (spc = "aborted" /\ cpc = "blocked" /\ cpc' # "blocked") =>
             /\ call'.rc = -1 /\ arg' = arg]_vars

\* The caller of an invocation whose user logic panicked has its error.
PanickedCallFailed ==
    /\ spc = "aborted" /\ cpc = "idle"
    /\ result.kind = "Err" /\ call.rc = -1 /\ call.sent = <<>>


(***************************************************************************)
(* Properties of RawServerProcedure (specification SpecRaw).               *)
(***************************************************************************)
\* C23: every invocation of the wrapper of RawServerProcedure ends in the
\* terminal call: once the user's server_procedure is over the thread is in
\* door_return, and the wrapper never returns to the kernel without it.
RawEndsInDoorReturn ==
    (wrapper = "RawServerProcedure" /\ spc \notin {"idle", "entered", "user"}) =>
        /\ spc = "door_return" /\ ret.valid
        /\ steps = <<"server_procedure", "door_return">>

(***************************************************************************)
(* Properties of the Request (specification SpecRequest).                  *)
(***************************************************************************)
\* C24: the Request handed to the user logic mirrors the raw arguments of
\* the callback: its data are arg_size bytes, equal to the payload the
\* caller sent, and its descriptors are the n_desc entries of the callback
\* in their order, one for each descriptor sent; the wrapper adds, drops and
\* reorders nothing.
RequestMirrorsRaw ==
    request.valid =>
        /\ raw.valid /\ cpc = "blocked"
        /\ Len(request.data) = raw.arg_size
        /\ request.data = SubSeq(arg.inner.data, 1, arg.inner.data_size)
        /\ Len(request.descriptors) = raw.n_desc
        /\ raw.n_desc = Len(ctor.fds)
        /\ \A i \in 1..raw.n_desc :
              /\ request.descriptors[i] = raw.dp[i]
              /\ sfds[request.descriptors[i].d_descriptor] = TheFile

\* The user logic holds a Request of two different bytes and two
\* descriptors.
RequestOfTwoAndTwo ==
    /\ spc = "user" /\ request.valid
    /\ Len(request.data) = 2 /\ request.data[1] # request.data[2]
    /\ Len(request.descriptors) = 2
    /\ request.descriptors[1] # request.descriptors[2]

(***************************************************************************)
(* Properties of the first version's install (specification SpecInstall).  *)
(***************************************************************************)
\* C25: whenever installing a server procedure returns Err, because
\* door_create, the creation of the jamb or fattach failed, the door
\* descriptor made by that attempt is closed and no jamb made by that
\* attempt remains.
FailedInstallLeaksNothing ==
    (install.pc = "done" /\ install.result # "Ok") =>
        /\ door.made => sfds[door.fd] = Closed
        /\ jamb # "jamb"

(***************************************************************************)
(* Properties of the capitalize servers (specification SpecCapitalize).    *)
(***************************************************************************)
\* C28: under concurrent calls each caller of a capitalize server receives
\* the upper-cased form of its own payload.
OwnUpperCase ==
    \A c \in Callers :
        (inv[c].pc = "done" /\ inv[c].door = "capitalize") =>
            inv[c].reply = to_ascii_uppercase(inv[c].payload)

(***************************************************************************)
(* Properties of #[door_send_fd] (specification SpecSendFd).               *)
(***************************************************************************)
\* C30: the handler generated by #[door_send_fd] passes to door_return
\* exactly the descriptors in the fds its function returned: as many as fds
\* is long, and entry for entry the descriptors of fds, for every length of
\* fds, zero included.
SendFdPassesFds ==
    (wrapper = "door_send_fd" /\ spc = "door_return") =>
        /\ ret.num_desc = Len(response.fds)
        /\ \A i \in 1..Len(response.fds) :
              as_raw_fd(ret.desc_ptr[i]) = response.fds[i]
=============================================================================
